---- MODULE Spec2Model ----
(***************************************************************************)
(* A model of kobject: runtime validation of record types, decoding of     *)
(* documents into records, encoding of records into documents, the field   *)
(* metadata cache, the resolver registries and JSON-schema generation.     *)
(***************************************************************************)
EXTENDS Integers, Sequences, FiniteSets, TLC

(***************************************************************************)
(* Python values.  Every value is a pair <<kind, payload>>: the runtime    *)
(* kind and what it holds.  A float n.0 is FloatV(n); a list and a tuple hold a *)
(* sequence; a dict holds its items as a sequence of <<key, value>> pairs  *)
(* in insertion order; an object holds <<class name, field values>>.       *)
(***************************************************************************)
IntV(n) == <<"int", n>>

FloatV(n) == <<"float", n>>

StrV(s) == <<"str", s>>

NoneV == <<"none", 0>>

ListV(s) == <<"list", s>>

TupleV(s) == <<"tuple", s>>

DictV(items) == <<"dict", items>>

\* a set, by its elements
SetV(elems) == <<"set", elems>>

ObjV(cls, vals) == <<"obj", <<cls, vals>>>>

\* inspect.Parameter.empty: the marker of a parameter without default
EMPTY == <<"empty", 0>>

\* value.__repr__(): the printable form of a value, never the value itself
Repr(value) == <<"repr", value>>

(***************************************************************************)
(* Type annotations: a class, or a generic alias with __origin__ n and     *)
(* __args__ a.                                                             *)
(***************************************************************************)
Cls(name) == [k |-> "cls", n |-> name, a |-> <<>>]

ListT(t) == [k |-> "alias", n |-> "list", a |-> <<t>>]

SetT(t) == [k |-> "alias", n |-> "set", a |-> <<t>>]

TupleT(args) == [k |-> "alias", n |-> "tuple", a |-> args]

DictT(kt, vt) == [k |-> "alias", n |-> "dict", a |-> <<kt, vt>>]

UnionT(args) == [k |-> "alias", n |-> "Union", a |-> args]

OptionalT(t) == UnionT(<<t, Cls("NoneType")>>)

EllipsisT == [k |-> "ellipsis", n |-> "Ellipsis", a |-> <<>>]

AnyT == [k |-> "any", n |-> "Any", a |-> <<>>]

\* the record classes (subclasses of Kobject) declared by the caller
RecordClasses ==
    {"B", "R1", "RL", "RT", "RV", "RD", "RN", "RO", "RO2", "RO3", "RB", "RB2",
     "RS", "RLU", "RLF"}

\* the record classes that are only encoded: containers of containers,
\* containers of optional elements, records of records with optional fields
EncodedClasses == {"RLL", "RLN", "RDN", "RNO"}

\* the enum classes
EnumClasses == {"Color"}

\* issubclass(c, d) for the class names of the model
IsSubclass(c, d) ==
    \/ c = d
    \/ c = "bool" /\ d = "int"
    \/ c \in EnumClasses /\ d = "Enum"
    \/ d = "object"
    \/ c \in RecordClasses \cup EncodedClasses /\ d = "Kobject"

\* type(value).__name__
TypeOf(value) ==
    CASE value[1] = "int" -> "int"
      [] value[1] = "float" -> "float"
      [] value[1] = "str" -> "str"
      [] value[1] = "none" -> "NoneType"
      [] value[1] = "list" -> "list"
      [] value[1] = "tuple" -> "tuple"
      [] value[1] = "dict" -> "dict"
      [] value[1] = "set" -> "set"
      [] value[1] = "obj" -> value[2][1]
      [] value[1] = "strof" -> "str"
      [] value[1] = "bytes" -> "bytes"
      [] OTHER -> "type"

\* isinstance(value, cls) for a class name
IsInstance(value, cls) == IsSubclass(TypeOf(value), cls)

IsNumber(value) == value[1] \in {"int", "float"}

\* Python's ==: numbers compare by value across int and float, containers
\* compare element by element, a list never equals a tuple, dataclass
\* instances compare class and fields
RECURSIVE PyEq(_, _)
PyEq(a, b) ==
    IF IsNumber(a) /\ IsNumber(b) THEN a[2] = b[2]
    ELSE IF a[1] # b[1] THEN FALSE
    ELSE IF a[1] \in {"list", "tuple"}
         THEN /\ Len(a[2]) = Len(b[2])
              /\ \A i \in 1..Len(a[2]) : PyEq(a[2][i], b[2][i])
    ELSE IF a[1] = "dict"
         THEN /\ Len(a[2]) = Len(b[2])
              /\ \A i \in 1..Len(a[2]) : \E j \in 1..Len(b[2]) :
                    PyEq(a[2][i][1], b[2][j][1]) /\ PyEq(a[2][i][2], b[2][j][2])
    ELSE IF a[1] = "obj"
         THEN /\ a[2][1] = b[2][1]
              /\ Len(a[2][2]) = Len(b[2][2])
              /\ \A i \in 1..Len(a[2][2]) : PyEq(a[2][2][i], b[2][2][i])
    ELSE a = b

(***************************************************************************)
(* Field metadata (fields.py).                                             *)
(***************************************************************************)
\* FieldMeta.new_one
new_one(name, annotation, value) ==
    [name |-> name,
     annotation |-> annotation,
     required |-> (value = EMPTY),
     default |-> value,
     have_default_value |-> (value # EMPTY)]

\* FieldMeta.get_generic_field_meta / _any_one: the anonymous field of an element
get_generic_field_meta(any_type) ==
    [name |-> "",
     annotation |-> any_type,
     required |-> TRUE,
     default |-> EMPTY,
     have_default_value |-> FALSE]

\* Signature.from_callable(cls).parameters: the declared constructor
\* parameters <<name, annotation, default>> of each record class
Parameters(cls) ==
    CASE cls = "B" -> << <<"x", Cls("int"), EMPTY>> >>
      [] cls = "R1" -> << <<"a", Cls("int"), EMPTY>>,
                          <<"b", Cls("B"), EMPTY>>,
                          <<"c", Cls("int"), IntV(1)>>,
                          <<"d", Cls("str"), EMPTY>> >>
      [] cls = "RL" -> << <<"l", ListT(Cls("int")), EMPTY>> >>
      [] cls = "RT" -> << <<"t", TupleT(<<Cls("int"), Cls("str")>>), EMPTY>> >>
      [] cls = "RV" -> << <<"v", TupleT(<<Cls("int"), EllipsisT>>),
                            TupleV(<<IntV(1), IntV(1), IntV(1)>>)>> >>
      [] cls = "RD" -> << <<"d", DictT(Cls("str"), Cls("int")), EMPTY>> >>
      [] cls = "RN" -> << <<"n", Cls("B"), EMPTY>>,
                          <<"m", ListT(Cls("B")), EMPTY>> >>
      [] cls = "RO" -> << <<"o", OptionalT(Cls("int")), EMPTY>> >>
      [] cls = "RO2" -> << <<"o", OptionalT(Cls("int")), IntV(0)>> >>
      [] cls = "RO3" -> << <<"o", OptionalT(ListT(Cls("int"))), StrV("x")>> >>
      [] cls = "RS" -> << <<"s", SetT(Cls("int")), EMPTY>> >>
      [] cls = "RLU" -> << <<"l", ListT(UnionT(<<Cls("int"), Cls("str")>>)), EMPTY>> >>
      [] cls = "RLF" -> << <<"l", ListT(UnionT(<<Cls("float"), Cls("int")>>)), EMPTY>> >>
      [] cls = "RB" -> << <<"d", Cls("dict"), EMPTY>> >>
      [] cls = "RB2" -> << <<"d", OptionalT(Cls("dict")), NoneV>> >>
      [] cls = "RLL" -> << <<"l", ListT(ListT(OptionalT(Cls("RO")))), EMPTY>> >>
      [] cls = "RLN" -> << <<"l", ListT(OptionalT(Cls("int"))), EMPTY>> >>
      [] cls = "RDN" -> << <<"d", DictT(Cls("int"), OptionalT(Cls("int"))), EMPTY>> >>
      [] cls = "RNO" -> << <<"n", Cls("RO"), EMPTY>>,
                           <<"m", ListT(Cls("RO")), EMPTY>> >>

\* the complete field table of a record class, as one uninterrupted
\* Kobject._with_field_map call builds it
FieldMap(cls) ==
    [i \in 1..Len(Parameters(cls)) |->
        new_one(Parameters(cls)[i][1], Parameters(cls)[i][2], Parameters(cls)[i][3])]

(***************************************************************************)
(* Validation (validation.py).                                             *)
(***************************************************************************)
is_generic_alias(annotation) == annotation.k = "alias"

is_special_form_union(annotation) == annotation.k = "alias" /\ annotation.n = "Union"

RECURSIVE validate_field_value(_, _)

\* a union check that asks every alternative to accept the value
validate_special_form_all(field, value) ==
    \A i \in 1..Len(field.annotation.a) :
        validate_field_value(value, get_generic_field_meta(field.annotation.a[i]))

\* _validate_special_form: some alternative of the union accepts the value
validate_special_form(field, value) ==
    \E i \in 1..Len(field.annotation.a) :
        validate_field_value(value, get_generic_field_meta(field.annotation.a[i]))

validate_dict(field, value) ==
    \A p \in 1..Len(value[2]) : \A i \in 1..2 :
        validate_field_value(value[2][p][i], get_generic_field_meta(field.annotation.a[i]))

validate_tuple(field, value) ==
    IF Len(field.annotation.a) # Len(value[2]) THEN FALSE
    ELSE \A p \in 1..Len(value[2]) : \E i \in 1..Len(field.annotation.a) :
            validate_field_value(value[2][p], get_generic_field_meta(field.annotation.a[i]))

validate_list(field, value) ==
    \A p \in 1..Len(value[2]) : \E i \in 1..Len(field.annotation.a) :
        validate_field_value(value[2][p], get_generic_field_meta(field.annotation.a[i]))

validate_field_value(value, field) ==
    IF PyEq(value, field.default) \/ field.annotation \in {EllipsisT, AnyT} THEN TRUE
    ELSE IF ~is_generic_alias(field.annotation)
         THEN IsInstance(value, field.annotation.n)
    ELSE IF is_special_form_union(field.annotation)
         THEN validate_special_form(field, value)
    ELSE IF ~IsInstance(value, field.annotation.n) THEN FALSE
    ELSE IF IsSubclass(field.annotation.n, "dict") THEN validate_dict(field, value)
    ELSE IF IsSubclass(field.annotation.n, "list") THEN validate_list(field, value)
    ELSE IF IsSubclass(field.annotation.n, "tuple") THEN validate_tuple(field, value)
    ELSE TRUE

(***************************************************************************)
(* Exceptions and call outcomes.  An exception carries its type, its       *)
(* message args[0], and, once _enriched_error ran, the structured list     *)
(* json_error() returns.                                                   *)
(***************************************************************************)
NewException(type, msg) == [type |-> type, msg |-> msg, enriched |-> FALSE, errors |-> <<>>]

NoException == NewException("", <<>>)

\* Kobject._enriched_error
enriched_error(exception, errors) ==
    [exception EXCEPT !.enriched = TRUE, !.errors = errors]

Return(value) == [ok |-> TRUE, val |-> value, exc |-> NoException]

Raise(exception) == [ok |-> FALSE, val |-> NoneV, exc |-> exception]

\* the exception classes a caller may install, and which of all exception
\* classes an `except TypeError` clause catches
CustomExceptions == {"CustomError", "CustomTypeError"}

IsTypeError(type) == type \in {"TypeError", "CustomTypeError"}

(***************************************************************************)
(* The state of the single-threaded API: the three error settings of       *)
(* Kobject, the decoder and encoder registries, and the call in progress   *)
(* with its outcome.                                                       *)
(***************************************************************************)
VARIABLES
    custom_exception,            \* Kobject.__custom_exception__ ("None" or a class)
    lazy_type_check,             \* Kobject.__lazy_type_check__
    from_json_custom_exception,  \* Kobject.__from_json_custom_exception__
    types_resolver,              \* JSONDecoder.types_resolver
    base_types_resolver,         \* JSONEncoder.base_types_resolver
    call,                        \* the API call made last, "idle" when none
    result,                      \* its outcome
    schema_resolvers,            \* JSONSchemaGenerator.schema_resolvers
    lock,                        \* the _lock of each registry: its holder, 0 when free
    pc,                          \* where each thread stands in its call
    job,                         \* the call of each thread and its local variables
    outcome,                     \* what the call of each thread returned or raised
    history,                     \* the registrations made, in the order of the inserts
    field_map,                   \* Kobject.__field_map: per class a list, 0 for None
    heap,                        \* the list objects the threads created
    graph,                       \* the record types a schema is generated for
    stack,                       \* the frames of the schema generation in progress
    defs,                        \* the defs dict of the generation
    processed,                   \* its processed set
    schema,                      \* the document generate returned, once it has
    objects,                     \* the list objects one caller's _with_field_map made
    base_any_type,               \* fields.__base_any_type__: the memoized FieldMeta
    returned,                    \* what _with_field_map and get_generic_field_meta returned
    own,                         \* the settings a record class holds as its own attributes
    last_set                     \* the argument of the last set_validation_custom_exception call

apiVars == <<custom_exception, lazy_type_check, from_json_custom_exception, call, result>>

registryVars == <<types_resolver, base_types_resolver, schema_resolvers>>

threadVars == <<lock, pc, job, outcome, history, field_map, heap>>

schemaVars == <<graph, stack, defs, processed, schema>>

cacheVars == <<objects, base_any_type, returned>>

classVars == <<own, last_set>>

\* the record classes a setter is called on besides Kobject
Receivers == {"B"}

\* a class attribute: absent, or set to a value
Unset == <<>>

\* cls.__custom_exception__, cls.__lazy_type_check__ and
\* cls.__from_json_custom_exception__ as attribute lookup finds them: the
\* attribute of the class itself when it has one, else the one of Kobject
custom_exception_of(cls) ==
    IF cls \in Receivers /\ own[cls].custom_exception # Unset
    THEN own[cls].custom_exception[1] ELSE custom_exception

lazy_type_check_of(cls) ==
    IF cls \in Receivers /\ own[cls].lazy_type_check # Unset
    THEN own[cls].lazy_type_check[1] ELSE lazy_type_check

from_json_custom_exception_of(cls) ==
    IF cls \in Receivers /\ own[cls].from_json_custom_exception # Unset
    THEN own[cls].from_json_custom_exception[1] ELSE from_json_custom_exception

(***************************************************************************)
(* Whole-record validation (core.py).                                      *)
(***************************************************************************)
RECURSIVE validate_model_errors(_, _, _)

\* a validation that goes on after the first offending field whatever the
\* mode
validate_model_errors_all(cls, vals, i) ==
    IF i > Len(FieldMap(cls)) THEN <<>>
    ELSE LET field == FieldMap(cls)[i]
             entry == [field |-> field.name,
                       type |-> field.annotation,
                       value |-> Repr(vals[i])]
         IN IF validate_field_value(vals[i], field) = FALSE
            THEN <<entry>> \o validate_model_errors(cls, vals, i + 1)
            ELSE validate_model_errors(cls, vals, i + 1)

\* the loop of Kobject.__validate_model from field i on: one entry per
\* offending field, stopping after the first one under lazy type check
validate_model_errors(cls, vals, i) ==
    IF i > Len(FieldMap(cls)) THEN <<>>
    ELSE LET field == FieldMap(cls)[i]
             entry == [field |-> field.name,
                       type |-> field.annotation,
                       value |-> Repr(vals[i])]
         IN IF validate_field_value(vals[i], field) = FALSE
            THEN IF lazy_type_check_of(cls) THEN <<entry>>
                 ELSE <<entry>> \o validate_model_errors(cls, vals, i + 1)
            ELSE validate_model_errors(cls, vals, i + 1)

\* Kobject.__validate_model, run by __post_init__ on the instance holding vals
validate_model(cls, vals) ==
    LET errors == validate_model_errors(cls, vals, 1)
        exception == IF custom_exception_of(cls) = "None" THEN "TypeError"
                     ELSE custom_exception_of(cls)
    IN IF errors # <<>>
       THEN Raise(enriched_error(NewException(exception, <<"type error", cls>>), errors))
       ELSE Return(ObjV(cls, vals))

(***************************************************************************)
(* Decoding (serialization.py, core.py).                                   *)
(***************************************************************************)
\* the resolvers the package registers at import, in registration order;
\* each registration inserts at the front
DefaultDecoderRegistrations ==
    << [type |-> "bool", cb |-> "identity"],
       [type |-> "float", cb |-> "to_float"],
       [type |-> "int", cb |-> "identity"],
       [type |-> "str", cb |-> "identity"],
       [type |-> "Kobject", cb |-> "from_dict"],
       [type |-> "Enum", cb |-> "to_enum"] >>

\* a registration that puts the entry last
InsertBack(list, entry) == Append(list, entry)

\* list.insert(0, entry)
InsertFront(list, entry) == <<entry>> \o list

RECURSIVE RegisterAll(_, _, _)
RegisterAll(list, entries, i) ==
    IF i > Len(entries) THEN list
    ELSE RegisterAll(InsertFront(list, entries[i]), entries, i + 1)

DefaultTypesResolver == RegisterAll(<<>>, DefaultDecoderRegistrations, 1)

\* serialization.is_union
is_union(attr_type) == attr_type.k = "alias" /\ attr_type.n = "Union"

\* inspect.isclass
isclass(attr_type) == attr_type.k = "cls"

\* serialization._checker for a reference class
checker(attr_type, reference) ==
    IF is_union(attr_type)
    THEN \E i \in 1..Len(attr_type.a) :
            isclass(attr_type.a[i]) /\ IsSubclass(attr_type.a[i].n, reference)
    ELSE isclass(attr_type) /\ IsSubclass(attr_type.n, reference)

\* JSONDecoder.get_base_type: the name of __origin__, or of the class itself
get_base_type(attr_type) == attr_type.n

\* dict.get / key in dict / dict.update({key: value}) on the item sequence
DictHas(items, key) == \E i \in 1..Len(items) : PyEq(items[i][1], key)

DictGet(items, key) ==
    IF DictHas(items, key)
    THEN items[CHOOSE i \in 1..Len(items) : PyEq(items[i][1], key)][2]
    ELSE NoneV

DictUpdate(items, key, value) ==
    IF DictHas(items, key)
    THEN [i \in 1..Len(items) |->
            IF PyEq(items[i][1], key) THEN <<items[i][1], value>> ELSE items[i]]
    ELSE Append(items, <<key, value>>)

RECURSIVE from_dict(_, _)
RECURSIVE type_caster_from(_, _, _)

\* the callbacks a caller registers that raise, and what each raises
RaisingCallbacks == {"raising", "raising_type"}

CallbackException(cb) ==
    IF cb = "raising_type" THEN NewException("TypeError", <<"resolver">>)
    ELSE NewException("ResolverError", <<"resolver">>)

\* a registered decoder callback applied to (attr_type, value)
ApplyDecoder(cb, attr_type, value) ==
    CASE cb = "identity" -> Return(value)
      [] cb = "to_float" ->
            Return(IF IsInstance(value, "int") THEN FloatV(value[2]) ELSE value)
      [] cb = "from_dict" ->
            IF IsInstance(value, "dict") THEN from_dict(attr_type.n, value[2])
            ELSE Return(value)
      [] cb = "to_enum" -> Return(value)
      [] cb \in RaisingCallbacks -> Raise(CallbackException(cb))
      [] OTHER -> Return(value)

\* a lookup that takes the oldest matching entry
matching_entry_last(resolvers, attr_type) ==
    LET hits == {i \in 1..Len(resolvers) : checker(attr_type, resolvers[i].type)}
    IN IF hits = {} THEN 0 ELSE CHOOSE i \in hits : \A j \in hits : i >= j

\* the entry the loop of JSONDecoder.type_caster stops at for a target
\* type: the first one _checker accepts (0 when none)
matching_entry(resolvers, attr_type) ==
    LET hits == {i \in 1..Len(resolvers) : checker(attr_type, resolvers[i].type)}
    IN IF hits = {} THEN 0 ELSE CHOOSE i \in hits : \A j \in hits : i <= j

\* a schema lookup without the pass for the exact class
schema_entry_first_match(resolvers, attr_type) ==
    LET sub == {i \in 1..Len(resolvers) : IsSubclass(attr_type.n, resolvers[i].type)}
    IN IF ~isclass(attr_type) \/ sub = {} THEN 0
       ELSE CHOOSE i \in sub : \A j \in sub : i <= j

\* the entry JSONSchemaGenerator.get_schema_for_type takes for a class: the
\* first registered for exactly that class, else the first for a class it
\* is a subclass of (0 when none, and for annotations that are no class)
schema_entry(resolvers, attr_type) ==
    LET exact == {i \in 1..Len(resolvers) : resolvers[i].type = attr_type.n}
        sub == {i \in 1..Len(resolvers) : IsSubclass(attr_type.n, resolvers[i].type)}
    IN IF ~isclass(attr_type) THEN 0
       ELSE IF exact # {} THEN CHOOSE i \in exact : \A j \in exact : i <= j
       ELSE IF sub # {} THEN CHOOSE i \in sub : \A j \in sub : i <= j
       ELSE 0

\* the first argument of a union that is a subclass of the matched type
\* (0 when none is): the inner loop of type_caster
FirstSubArg(attr_type, map_attr_type) ==
    LET hits == {i \in 1..Len(attr_type.a) :
                    isclass(attr_type.a[i]) /\ IsSubclass(attr_type.a[i].n, map_attr_type)}
    IN IF hits = {} THEN 0 ELSE CHOOSE i \in hits : \A j \in hits : i <= j

\* JSONDecoder.type_caster, scanning the registry from entry i on
type_caster_from(attr_type, attr_value, i) ==
    IF i > Len(types_resolver) THEN Return(attr_value)
    ELSE LET entry == types_resolver[i]
         IN IF checker(attr_type, entry.type)
            THEN IF FirstSubArg(attr_type, entry.type) # 0
                 THEN ApplyDecoder(entry.cb,
                                   attr_type.a[FirstSubArg(attr_type, entry.type)],
                                   attr_value)
                 ELSE ApplyDecoder(entry.cb, attr_type, attr_value)
            ELSE type_caster_from(attr_type, attr_value, i + 1)

\* a cast that unwraps a one-element list given for a scalar
type_caster_unwrapping(attr_type, attr_value) ==
    IF attr_value[1] = "list" /\ Len(attr_value[2]) = 1 /\ isclass(attr_type)
    THEN Return(attr_value[2][1])
    ELSE type_caster_from(attr_type, attr_value, 1)

type_caster(attr_type, attr_value) == type_caster_from(attr_type, attr_value, 1)

\* _resolve_list from item i on: each item is cast against the first
\* declared argument only
RECURSIVE resolve_list_from(_, _, _, _)
resolve_list_from(type, items, i, out) ==
    IF i > Len(items) THEN Return(ListV(out))
    ELSE IF Len(type.a) = 0 THEN resolve_list_from(type, items, i + 1, out)
    ELSE LET r == type_caster(type.a[1], items[i])
         IN IF r.ok THEN resolve_list_from(type, items, i + 1, Append(out, r.val))
            ELSE r

\* a resolve that leaves out the first raw element
resolve_list_dropping(type, attr_value) ==
    resolve_list_from(type, SubSeq(attr_value[2], 2, Len(attr_value[2])), 1, <<>>)

resolve_list(type, attr_value) == resolve_list_from(type, attr_value[2], 1, <<>>)

Min(a, b) == IF a <= b THEN a ELSE b

\* _resolve_tuple from position i on: zip(attr_value, __args__) stops at
\* the shorter of the two
RECURSIVE resolve_tuple_from(_, _, _, _)
resolve_tuple_from(type, items, i, out) ==
    IF i > Min(Len(items), Len(type.a)) THEN Return(TupleV(out))
    ELSE LET r == type_caster(type.a[i], items[i])
         IN IF r.ok THEN resolve_tuple_from(type, items, i + 1, Append(out, r.val))
            ELSE r

resolve_tuple(type, attr_value) == resolve_tuple_from(type, attr_value[2], 1, <<>>)

\* _resolve_dict from item i on: key and value are cast independently
RECURSIVE resolve_dict_from(_, _, _, _)
resolve_dict_from(type, items, i, out) ==
    IF i > Len(items) THEN Return(DictV(out))
    ELSE LET rk == type_caster(type.a[1], items[i][1])
             rv == type_caster(type.a[2], items[i][2])
         IN IF ~rk.ok THEN rk
            ELSE IF ~rv.ok THEN rv
            ELSE resolve_dict_from(type, items, i + 1, DictUpdate(out, rk.val, rv.val))

resolve_dict(type, attr_value) ==
    IF ~is_generic_alias(type) THEN Return(attr_value)
    ELSE resolve_dict_from(type, attr_value[2], 1, <<>>)

\* the decoding of one present field of from_dict
decode_field(field, attr_value) ==
    LET base_type == get_base_type(field.annotation)
    IN IF PyEq(attr_value, field.default) THEN Return(attr_value)
       ELSE IF base_type = "NoneType" /\ attr_value = NoneV THEN Return(attr_value)
       ELSE IF ~(\/ checker(Cls(base_type), "list")
                 \/ checker(Cls(base_type), "tuple")
                 \/ checker(Cls(base_type), "dict"))
            THEN type_caster(field.annotation, attr_value)
       ELSE IF checker(Cls(base_type), "list") /\ IsInstance(attr_value, "list")
            THEN resolve_list(field.annotation, attr_value)
       ELSE IF checker(Cls(base_type), "tuple") /\ IsInstance(attr_value, "list")
            THEN resolve_tuple(field.annotation, attr_value)
       ELSE IF checker(Cls(base_type), "dict") /\ IsInstance(attr_value, "dict")
            THEN resolve_dict(field.annotation, attr_value)
       ELSE Return(attr_value)

\* a from_dict that gives up at the first missing field
raise_missing_first(cls, missing) ==
    Raise(enriched_error(NewException("TypeError", <<"missing content", cls>>),
                         <<missing[1]>>))

\* the end of Kobject.from_dict when fields are missing: one TypeError
\* carrying every missing field
raise_missing(cls, missing) ==
    Raise(enriched_error(NewException("TypeError", <<"missing content", cls>>), missing))

\* a store that writes the decoded value into the caller's document too
store_field_in_place(maps, name, value) ==
    [dict_repr |-> DictUpdate(maps.dict_repr, StrV(name), value),
     kwargs |-> DictUpdate(maps.kwargs, StrV(name), value)]

\* _dict_repr.update({field.name: attr_value}) and
\* _dict_repr[field.name] = ...: the writes of the field loop go to the
\* keyword map; maps holds the caller's dict_repr and the local _dict_repr
store_field(maps, name, value) ==
    [dict_repr |-> maps.dict_repr,
     kwargs |-> DictUpdate(maps.kwargs, StrV(name), value)]

\* the field loop of Kobject.from_dict from field i on, giving the outcome
\* of the call and the two dicts as the call leaves them; missing collects
\* the absent required fields, kwargs the constructor arguments
RECURSIVE from_dict_from(_, _, _, _, _)
RECURSIVE after_decode(_, _, _, _, _, _, _)
from_dict_from(cls, maps, i, missing, kwargs) ==
    IF i > Len(FieldMap(cls))
    THEN [outcome |-> IF missing # <<>>
                      THEN raise_missing(cls, missing)
                      ELSE validate_model(cls, kwargs),
          maps |-> maps]
    ELSE LET field == FieldMap(cls)[i]
             is_missing == ~DictHas(maps.dict_repr, StrV(field.name))
         IN IF is_missing /\ field.have_default_value
            THEN from_dict_from(cls, maps, i + 1, missing,
                                Append(kwargs, field.default))
            ELSE IF is_missing
            THEN from_dict_from(cls, maps, i + 1,
                                Append(missing, [field |-> field.name,
                                                 type |-> field.annotation,
                                                 value |-> StrV("Empty")]),
                                Append(kwargs, EMPTY))
            ELSE after_decode(cls, maps, i, missing, kwargs,
                              DictGet(maps.dict_repr, StrV(field.name)),
                              decode_field(field, DictGet(maps.dict_repr,
                                                          StrV(field.name))))

\* a present field: its raw value is stored, then the decoded one; when
\* decoding raised the call is left with the raw value stored
after_decode(cls, maps, i, missing, kwargs, attr_value, decoded) ==
    IF decoded.ok
    THEN from_dict_from(cls,
                        store_field(store_field(maps, FieldMap(cls)[i].name, attr_value),
                                    FieldMap(cls)[i].name, decoded.val),
                        i + 1, missing, Append(kwargs, decoded.val))
    ELSE [outcome |-> decoded,
          maps |-> store_field(maps, FieldMap(cls)[i].name, attr_value)]

\* Kobject.from_dict on the items of a dict: the outcome and the dicts
from_dict_state(cls, dict_repr) ==
    from_dict_from(cls, [dict_repr |-> dict_repr, kwargs |-> <<>>], 1, <<>>, <<>>)

\* Kobject.from_dict on the items of a dict
from_dict(cls, dict_repr) == from_dict_state(cls, dict_repr).outcome

\* json.loads on a payload: a payload is the JSON text of one value, or
\* malformed text
JsonBytes(value) == <<"bytes", <<value>>>>

Malformed == <<"bytes", <<>>>>

\* str(value): a string that names the value
StrOf(value) == <<"strof", value>>

json_loads(payload) ==
    IF payload = Malformed THEN Raise(NewException("JSONDecodeError", <<"expecting value">>))
    ELSE Return(payload[2][1])

\* Kobject.from_json
from_json(cls, payload) ==
    LET loaded == json_loads(payload)
        r == IF ~loaded.ok THEN loaded
             ELSE IF loaded.val[1] # "dict"
                  THEN Raise(NewException("AttributeError", <<"no attribute get">>))
             ELSE from_dict(cls, loaded.val[2])
    IN IF r.ok THEN r
       ELSE IF IsTypeError(r.exc.type)
       THEN LET substituted ==
                    IF from_json_custom_exception_of(cls) # "None"
                    THEN NewException(from_json_custom_exception_of(cls), r.exc.msg)
                    ELSE r.exc
            IN IF r.exc.enriched
               THEN Raise(enriched_error(substituted, r.exc.errors))
               ELSE Raise(substituted)
       ELSE LET substituted ==
                    IF from_json_custom_exception_of(cls) # "None"
                    THEN NewException(from_json_custom_exception_of(cls), <<"invalid content">>)
                    ELSE r.exc
            IN Raise(enriched_error(substituted,
                                    << [field |-> cls,
                                        type |-> Cls("type"),
                                        value |-> StrOf(payload)] >>))

(***************************************************************************)
(* Encoding (core.py, serialization.py).  The encoder registry is a dict   *)
(* from a class to [callback, on_dict], kept as its items in insertion     *)
(* order.                                                                  *)
(***************************************************************************)
\* a registered encoder callback applied to a value
ApplyEncoder(cb, obj) ==
    CASE cb = "to_str" -> StrOf(obj)
      [] OTHER -> obj

\* the first entry of the encoder registry that takes obj (0 when none does)
FirstEncoder(obj, on_dict_only) ==
    LET hits == {i \in 1..Len(base_types_resolver) :
                    /\ IsInstance(obj, base_types_resolver[i].type)
                    /\ (on_dict_only => base_types_resolver[i].on_dict)}
    IN IF hits = {} THEN 0 ELSE CHOOSE i \in hits : \A j \in hits : i <= j

RECURSIVE to_dict_with(_, _, _)

\* JSONEncoder.dict_default (resolver = "dict_default") and
\* JSONEncoder.default (resolver = "default")
encoder_default(obj, resolver) ==
    IF IsInstance(obj, "Kobject") THEN to_dict_with(obj, "dict_default", FALSE)
    ELSE LET i == FirstEncoder(obj, resolver = "dict_default")
         IN IF i = 0 THEN obj ELSE ApplyEncoder(base_types_resolver[i].cb, obj)

\* the inner function resolve of Kobject._dict
resolve(obj, resolver, remove_nones) ==
    IF IsInstance(obj, "Kobject") THEN to_dict_with(obj, "dict_default", remove_nones)
    ELSE encoder_default(obj, resolver)

\* the elements of a list or tuple field, from element i on
RECURSIVE encode_items(_, _, _, _)
encode_items(items, i, resolver, remove_nones) ==
    IF i > Len(items) THEN <<>>
    ELSE IF remove_nones /\ items[i] = NoneV
         THEN encode_items(items, i + 1, resolver, remove_nones)
    ELSE <<resolve(items[i], resolver, remove_nones)>>
            \o encode_items(items, i + 1, resolver, remove_nones)

\* the items of a dict field, from item i on
RECURSIVE encode_dict(_, _, _, _, _)
encode_dict(items, i, resolver, remove_nones, out) ==
    IF i > Len(items) THEN out
    ELSE IF remove_nones /\ items[i][2] = NoneV
         THEN encode_dict(items, i + 1, resolver, remove_nones, out)
    ELSE encode_dict(items, i + 1, resolver, remove_nones,
                     DictUpdate(out, resolve(items[i][1], resolver, remove_nones),
                                     resolve(items[i][2], resolver, remove_nones)))

\* the field loop of Kobject._dict from field i on
RECURSIVE dict_fields(_, _, _, _, _)
dict_fields(obj, i, resolver, remove_nones, out) ==
    IF i > Len(FieldMap(obj[2][1])) THEN out
    ELSE LET field == FieldMap(obj[2][1])[i]
             attr_value == obj[2][2][i]
             key == StrV(field.name)
         IN IF remove_nones /\ attr_value = NoneV
            THEN dict_fields(obj, i + 1, resolver, remove_nones, out)
            ELSE IF attr_value[1] \notin {"list", "tuple", "dict"}
            THEN dict_fields(obj, i + 1, resolver, remove_nones,
                             DictUpdate(out, key, resolve(attr_value, resolver, remove_nones)))
            ELSE IF attr_value[1] \in {"list", "tuple"}
            THEN dict_fields(obj, i + 1, resolver, remove_nones,
                             DictUpdate(out, key,
                                ListV(encode_items(attr_value[2], 1, resolver, remove_nones))))
            ELSE dict_fields(obj, i + 1, resolver, remove_nones,
                             DictUpdate(out, key,
                                DictV(encode_dict(attr_value[2], 1, resolver,
                                                  remove_nones, <<>>))))

\* Kobject._dict
to_dict_with(obj, resolver, remove_nones) ==
    DictV(dict_fields(obj, 1, resolver, remove_nones, <<>>))

\* Kobject.dict / Kobject.to_dict
to_dict(obj, remove_nones) == to_dict_with(obj, "dict_default", remove_nones)

\* the key json.dumps writes for a dict key: always a string
json_key(key) ==
    CASE key[1] = "str" -> key
      [] key[1] = "strof" -> key
      [] key[1] = "int" -> StrV(ToString(key[2]))
      [] key[1] = "none" -> StrV("null")
      [] OTHER -> StrOf(key)

\* the first index of a sequence of outcomes that raised (0 when none did)
FirstRaised(outcomes) ==
    LET bad == {i \in 1..Len(outcomes) : ~outcomes[i].ok}
    IN IF bad = {} THEN 0 ELSE CHOOSE i \in bad : \A j \in bad : i <= j

RECURSIVE json_value(_)

\* the items of a dict as json.dumps writes and json.loads reads them back:
\* keys as strings, a repeated key keeping its last value
RECURSIVE json_items(_, _, _)
json_items(items, i, out) ==
    IF i > Len(items) THEN Return(DictV(out))
    ELSE IF items[i][1][1] \notin {"str", "strof", "int", "float", "none"}
         THEN Raise(NewException("TypeError", <<"keys must be str, int, float, bool or None">>))
    ELSE LET r == json_value(items[i][2])
         IN IF ~r.ok THEN r
            ELSE json_items(items, i + 1, DictUpdate(out, json_key(items[i][1]), r.val))

\* the value json.loads reads from what json.dumps(value,
\* default=JSONEncoder.default) writes: lists for lists and tuples, string
\* keys, and for any other object what JSONEncoder.default makes of it; a
\* default that hands the object back is a circular reference
json_value(value) ==
    IF value[1] \in {"int", "float", "str", "strof", "none"} THEN Return(value)
    ELSE IF value[1] \in {"list", "tuple"}
         THEN LET rs == [i \in 1..Len(value[2]) |-> json_value(value[2][i])]
              IN IF FirstRaised(rs) # 0 THEN rs[FirstRaised(rs)]
                 ELSE Return(ListV([i \in 1..Len(rs) |-> rs[i].val]))
    ELSE IF value[1] = "dict" THEN json_items(value[2], 1, <<>>)
    ELSE LET o == encoder_default(value, "default")
         IN IF o[1] = value[1] /\ o = value
            THEN Raise(NewException("ValueError", <<"Circular reference detected">>))
            ELSE json_value(o)

\* Kobject.to_json
to_json(obj, remove_nones) ==
    LET dict_repr == to_dict_with(obj, "default", remove_nones)
        dumped == json_value(dict_repr)
    IN IF dumped.ok THEN Return(JsonBytes(dumped.val)) ELSE dumped

(***************************************************************************)
(* The inputs of the calls: constructor arguments, documents and payloads  *)
(* drawn from bounded sets.                                                *)
(***************************************************************************)
\* the longest list or tuple among the inputs
MaxLen == 3

SeqsUpTo(S, n) == UNION {[1..m -> S] : m \in 0..n}

Atoms == {IntV(0), IntV(1), FloatV(0), StrV("x"), NoneV}

ElemValues == {IntV(1), IntV(2), StrV("x")}

BInstances == {ObjV("B", <<IntV(1)>>), ObjV("B", <<IntV(2)>>)}

BDocs == {DictV(<<>>),
          DictV(<< <<StrV("x"), IntV(1)>> >>),
          DictV(<< <<StrV("x"), StrV("x")>> >>)}

Dicts == {DictV(<<>>),
          DictV(<< <<StrV("x"), IntV(1)>> >>),
          DictV(<< <<StrV("x"), StrV("x")>> >>),
          DictV(<< <<IntV(1), IntV(1)>> >>)}

HoldsRecords(annotation) ==
    annotation.k = "alias" /\ Len(annotation.a) > 0 /\ annotation.a[1] = Cls("B")

MentionsList(annotation) ==
    \/ annotation.n \in {"list", "tuple"}
    \/ annotation.k = "alias" /\ \E i \in 1..Len(annotation.a) : annotation.a[i].n = "list"

\* the elements tried in a list or tuple: None too when the element type
\* is a union
ElemsFor(annotation) ==
    IF annotation.k = "alias" /\ Len(annotation.a) > 0 /\ is_union(annotation.a[1])
    THEN ElemValues \cup {NoneV}
    ELSE ElemValues

MentionsDict(annotation) ==
    \/ annotation.n = "dict"
    \/ annotation.k = "alias" /\ \E i \in 1..Len(annotation.a) : annotation.a[i].n = "dict"

\* the values tried as the constructor argument of a field
ArgValues(field) ==
    Atoms
    \cup (IF field.have_default_value THEN {field.default} ELSE {})
    \cup (IF MentionsList(field.annotation) /\ ~HoldsRecords(field.annotation)
          THEN {ListV(s) : s \in SeqsUpTo(ElemsFor(field.annotation), MaxLen)}
               \cup {TupleV(s) : s \in SeqsUpTo(ElemsFor(field.annotation), MaxLen)}
          ELSE {})
    \cup (IF field.annotation.n = "set"
          THEN {SetV(elems) : elems \in SUBSET ElemValues} \cup {ListV(<<IntV(1)>>)}
          ELSE {})
    \cup (IF HoldsRecords(field.annotation)
          THEN {ListV(s) : s \in SeqsUpTo(BInstances \cup {IntV(1)}, MaxLen - 1)}
          ELSE {})
    \cup (IF MentionsDict(field.annotation) THEN Dicts ELSE {})
    \cup (IF field.annotation = Cls("B") THEN BInstances ELSE {})

\* the values tried for a field in a document
DocValues(field) ==
    {IntV(1), StrV("x"), NoneV}
    \cup (IF MentionsList(field.annotation) /\ ~HoldsRecords(field.annotation)
          THEN {ListV(s) : s \in SeqsUpTo(ElemValues, MaxLen)}
          ELSE {})
    \cup (IF HoldsRecords(field.annotation)
          THEN {ListV(s) : s \in SeqsUpTo(BDocs, MaxLen - 2)}
          ELSE {})
    \cup (IF MentionsDict(field.annotation) THEN Dicts ELSE {})
    \cup (IF field.annotation = Cls("B") THEN BDocs ELSE {})
    \cup (IF isclass(field.annotation) /\ field.annotation.n # "dict"
          THEN {ListV(<<IntV(1)>>)} ELSE {})

\* all argument tuples of a record class
RECURSIVE ArgsFrom(_, _)
ArgsFrom(cls, i) ==
    IF i > Len(FieldMap(cls)) THEN {<<>>}
    ELSE {<<x>> \o rest : x \in ArgValues(FieldMap(cls)[i]), rest \in ArgsFrom(cls, i + 1)}

Args(cls) == ArgsFrom(cls, 1)

\* all documents for a record class: each field absent or present, in
\* declaration order
RECURSIVE DocsFrom(_, _)
DocsFrom(cls, i) ==
    IF i > Len(FieldMap(cls)) THEN {<<>>}
    ELSE LET rests == DocsFrom(cls, i + 1)
         IN rests \cup {<< <<StrV(FieldMap(cls)[i].name), x>> >> \o rest :
                            x \in DocValues(FieldMap(cls)[i]), rest \in rests}

\* the instances of a record class that construction accepts
ValidInstances(cls) ==
    {ObjV(cls, vals) : vals \in {a \in Args(cls) : validate_model_errors(cls, a, 1) = <<>>}}

\* a key no record class declares
ExtraKey == StrV("extra_key")

\* the documents decoded: the drawn ones, with and without a key that is
\* no field, and the ones to_dict produces
Docs(cls) ==
    {DictV(d) : d \in DocsFrom(cls, 1)}
    \cup {DictV(<< <<ExtraKey, StrV("x")>> >> \o d) : d \in DocsFrom(cls, 1)}
    \cup {to_dict(i, FALSE) : i \in ValidInstances(cls)}

Payloads(cls) ==
    {Malformed, JsonBytes(ListV(<<>>))}
    \cup {JsonBytes(DictV(d)) : d \in DocsFrom(cls, 1)}

\* the instances encoded
ROInstances == {ObjV("RO", <<NoneV>>), ObjV("RO", <<IntV(1)>>)}

EncodedCandidates ==
    ROInstances
    \cup {ObjV("RT", <<TupleV(<<IntV(1), StrV("x")>>)>>),
          ObjV("RD", <<DictV(<< <<StrV("x"), IntV(1)>> >>)>>),
          ObjV("RS", <<SetV({})>>),
          ObjV("RS", <<SetV({IntV(1)})>>)}
    \cup {ObjV("RLL", <<ListV(<<ListV(inner)>>)>>) :
              inner \in SeqsUpTo(ROInstances \cup {NoneV}, MaxLen - 1)}
    \cup {ObjV("RLL", <<ListV(<<>>)>>)}
    \cup {ObjV("RLN", <<ListV(l)>>) : l \in SeqsUpTo({NoneV, IntV(1)}, MaxLen - 1)}
    \cup {ObjV("RDN", <<DictV(<<>>)>>)}
    \cup {ObjV("RDN", <<DictV(<< <<IntV(1), v>> >>)>>) : v \in {NoneV, IntV(2)}}
    \cup {ObjV("RDN", <<DictV(<< <<IntV(1), v>>, <<IntV(2), IntV(1)>> >>)>>) :
              v \in {NoneV, IntV(2)}}
    \cup {ObjV("RNO", <<n, ListV(m)>>) :
              n \in ROInstances, m \in SeqsUpTo(ROInstances, MaxLen - 2)}

\* those of them the constructor accepts
EncodedInstances ==
    {i \in EncodedCandidates : validate_model_errors(i[2][1], i[2][2], 1) = <<>>}

\* the decoders a caller registers: how many, and for which types
MaxDecoders == 1

DecoderTypes == {"int", "str"}

\* the encoders a caller registers: str() for int values, and a callback
\* for the record class RO
EncoderTypes == {"int", "RO"}

(***************************************************************************)
(* The single-threaded API: between calls the caller changes the error     *)
(* settings; a call runs to completion and leaves its outcome.             *)
(***************************************************************************)
IdleCall == [op |-> "idle", cls |-> "", arg |-> NoneV]

ApiInit ==
    /\ custom_exception = "None"
    /\ lazy_type_check = FALSE
    /\ from_json_custom_exception = "None"
    /\ call = IdleCall
    /\ result = Return(NoneV)

\* the registries once the package is imported
RegistryInit ==
    /\ types_resolver = DefaultTypesResolver
    /\ base_types_resolver = <<>>
    /\ schema_resolvers = <<>>

\* Kobject.set_validation_custom_exception
set_validation_custom_exception ==
    /\ call.op = "idle"
    /\ \E exception \in CustomExceptions \cup {"None"} :
          /\ custom_exception' = exception
          /\ last_set' = exception
    /\ UNCHANGED <<lazy_type_check, from_json_custom_exception, call, result, own>>
    /\ UNCHANGED <<registryVars, threadVars, schemaVars, cacheVars>>

\* Kobject.set_lazy_type_check
set_lazy_type_check ==
    /\ call.op = "idle"
    /\ \E status \in BOOLEAN : lazy_type_check' = status
    /\ UNCHANGED <<custom_exception, from_json_custom_exception, call, result>>
    /\ UNCHANGED <<registryVars, threadVars, schemaVars, cacheVars, classVars>>

\* Kobject.set_content_check_custom_exception
set_content_check_custom_exception ==
    /\ call.op = "idle"
    /\ \E exception \in {"CustomError", "None"} :
          from_json_custom_exception' = exception
    /\ UNCHANGED <<custom_exception, lazy_type_check, call, result>>
    /\ UNCHANGED <<registryVars, threadVars, schemaVars, cacheVars, classVars>>

\* no record class has a setting of its own
NoOwnSettings ==
    /\ own = [c \in Receivers |->
                 [custom_exception |-> Unset, lazy_type_check |-> Unset,
                  from_json_custom_exception |-> Unset]]
    /\ last_set = "None"

\* the setters called on a record class: cls.<attribute> = value binds the
\* attribute on that class
set_validation_custom_exception_on ==
    /\ call.op = "idle"
    /\ \E cls \in Receivers : \E exception \in CustomExceptions \cup {"None"} :
          /\ own' = [own EXCEPT ![cls].custom_exception = <<exception>>]
          /\ last_set' = exception
    /\ UNCHANGED <<apiVars, registryVars, threadVars, schemaVars, cacheVars>>

set_lazy_type_check_on ==
    /\ call.op = "idle"
    /\ \E cls \in Receivers : \E status \in {TRUE} :
          own' = [own EXCEPT ![cls].lazy_type_check = <<status>>]
    /\ UNCHANGED last_set
    /\ UNCHANGED <<apiVars, registryVars, threadVars, schemaVars, cacheVars>>

set_content_check_custom_exception_on ==
    /\ call.op = "idle"
    /\ \E cls \in Receivers : \E exception \in {"CustomError"} :
          own' = [own EXCEPT ![cls].from_json_custom_exception = <<exception>>]
    /\ UNCHANGED last_set
    /\ UNCHANGED <<apiVars, registryVars, threadVars, schemaVars, cacheVars>>

\* cls(**kwargs): __init__ stores the arguments, __post_init__ validates
Construct ==
    /\ call.op = "idle"
    /\ \E cls \in RecordClasses : \E vals \in Args(cls) :
          /\ call' = [op |-> "construct", cls |-> cls, arg |-> TupleV(vals)]
          /\ result' = validate_model(cls, vals)
    /\ UNCHANGED <<custom_exception, lazy_type_check, from_json_custom_exception>>
    /\ UNCHANGED <<registryVars, threadVars, schemaVars, cacheVars, classVars>>

\* cls.from_dict(dict_repr)
FromDict ==
    /\ call.op = "idle"
    /\ \E cls \in RecordClasses : \E doc \in Docs(cls) :
          \E st \in {from_dict_state(cls, doc[2])} :
              /\ call' = [op |-> "from_dict", cls |-> cls, arg |-> doc,
                          maps |-> st.maps]
              /\ result' = st.outcome
    /\ UNCHANGED <<custom_exception, lazy_type_check, from_json_custom_exception>>
    /\ UNCHANGED <<registryVars, threadVars, schemaVars, cacheVars, classVars>>

\* cls.from_json(payload)
FromJson ==
    /\ call.op = "idle"
    /\ \E cls \in RecordClasses : \E payload \in Payloads(cls) :
          /\ call' = [op |-> "from_json", cls |-> cls, arg |-> payload]
          /\ result' = from_json(cls, payload)
    /\ UNCHANGED <<custom_exception, lazy_type_check, from_json_custom_exception>>
    /\ UNCHANGED <<registryVars, threadVars, schemaVars, cacheVars, classVars>>

\* instance.to_dict()
ToDict ==
    /\ call.op = "idle"
    /\ \E cls \in RecordClasses : \E obj \in ValidInstances(cls) :
          /\ call' = [op |-> "to_dict", cls |-> cls, arg |-> obj]
          /\ result' = Return(to_dict(obj, FALSE))
    /\ UNCHANGED <<custom_exception, lazy_type_check, from_json_custom_exception>>
    /\ UNCHANGED <<registryVars, threadVars, schemaVars, cacheVars, classVars>>

\* the call returns to the caller
Done ==
    /\ call.op # "idle"
    /\ call' = IdleCall
    /\ result' = Return(NoneV)
    /\ UNCHANGED <<custom_exception, lazy_type_check, from_json_custom_exception>>
    /\ UNCHANGED <<registryVars, threadVars, schemaVars, cacheVars, classVars>>

\* Kobject.set_encoder_resolver, called between two encoding calls
set_encoder_resolver ==
    /\ call.op = "idle"
    /\ \E attr_type \in EncoderTypes : \E on_dict \in BOOLEAN :
          LET entry == [type |-> attr_type, cb |-> "to_str", on_dict |-> on_dict]
          IN base_types_resolver' =
                IF \E i \in 1..Len(base_types_resolver) :
                        base_types_resolver[i].type = attr_type
                THEN [i \in 1..Len(base_types_resolver) |->
                        IF base_types_resolver[i].type = attr_type
                        THEN entry ELSE base_types_resolver[i]]
                ELSE Append(base_types_resolver, entry)
    /\ UNCHANGED <<types_resolver, schema_resolvers>>
    /\ UNCHANGED <<apiVars, threadVars, schemaVars, cacheVars, classVars>>

\* Kobject.set_decoder_resolver, called between two decoding calls, with a
\* callback that raises
set_decoder_resolver ==
    /\ call.op = "idle"
    /\ Len(types_resolver) < Len(DefaultTypesResolver) + MaxDecoders
    /\ \E attr_type \in DecoderTypes : \E cb \in RaisingCallbacks :
          types_resolver' = InsertFront(types_resolver, [type |-> attr_type, cb |-> cb])
    /\ UNCHANGED <<base_types_resolver, schema_resolvers>>
    /\ UNCHANGED <<apiVars, threadVars, schemaVars, cacheVars, classVars>>

\* constructions of one caller, with the settings changed in between
\* through Kobject and through a record class
SettingsNext ==
    \/ set_validation_custom_exception
    \/ set_lazy_type_check
    \/ set_content_check_custom_exception
    \/ set_validation_custom_exception_on
    \/ set_lazy_type_check_on
    \/ set_content_check_custom_exception_on
    \/ Construct
    \/ Done

\* the decoding calls of one caller, with decoders registered in between
DecodeNext ==
    \/ set_decoder_resolver
    \/ set_content_check_custom_exception
    \/ FromDict
    \/ FromJson
    \/ Done

\* instance.dict(remove_nones)
DictCall ==
    /\ call.op = "idle"
    /\ \E obj \in EncodedInstances : \E remove_nones \in BOOLEAN :
          /\ call' = [op |-> "dict", cls |-> obj[2][1], arg |-> obj,
                      remove_nones |-> remove_nones]
          /\ result' = Return(to_dict(obj, remove_nones))
    /\ UNCHANGED <<custom_exception, lazy_type_check, from_json_custom_exception>>
    /\ UNCHANGED <<registryVars, threadVars, schemaVars, cacheVars, classVars>>

\* instance.to_json(remove_nones)
ToJson ==
    /\ call.op = "idle"
    /\ \E obj \in EncodedInstances : \E remove_nones \in BOOLEAN :
          /\ call' = [op |-> "to_json", cls |-> obj[2][1], arg |-> obj,
                      remove_nones |-> remove_nones]
          /\ result' = to_json(obj, remove_nones)
    /\ UNCHANGED <<custom_exception, lazy_type_check, from_json_custom_exception>>
    /\ UNCHANGED <<registryVars, threadVars, schemaVars, cacheVars, classVars>>

\* the encoding calls of one caller, with encoders registered in between
EncodeNext ==
    \/ set_encoder_resolver
    \/ DictCall
    \/ ToJson
    \/ Done

(***************************************************************************)
(* Properties of the single-threaded API.                                  *)
(***************************************************************************)
\* the names the structured list of an outcome carries, in order
ErrorFields(raised) ==
    [i \in 1..Len(raised.exc.errors) |-> raised.exc.errors[i].field]

\* the declared names of a class, in declaration order
DeclaredNames(cls) == [i \in 1..Len(Parameters(cls)) |-> Parameters(cls)[i][1]]

DeclaredDefault(cls, name) ==
    Parameters(cls)[CHOOSE i \in 1..Len(Parameters(cls)) : Parameters(cls)[i][1] = name][3]

\* the required fields a document lacks, in declaration order
MissingRequired(cls, doc) ==
    SelectSeq(DeclaredNames(cls),
              LAMBDA name : /\ DeclaredDefault(cls, name) = EMPTY
                            /\ \A i \in 1..Len(doc[2]) : doc[2][i][1] # StrV(name))

\* every field the document holds decodes without raising
PresentFieldsDecode(cls, doc) ==
    \A i \in 1..Len(FieldMap(cls)) :
        DictHas(doc[2], StrV(FieldMap(cls)[i].name))
            => decode_field(FieldMap(cls)[i],
                            DictGet(doc[2], StrV(FieldMap(cls)[i].name))).ok

\* C1 as stated: from_dict on a document lacking N >= 1 required fields
\* raises one error whose list names exactly those fields, once each, in
\* declaration order, and builds no instance.
C1_MissingListedAlways ==
    (call.op = "from_dict" /\ MissingRequired(call.cls, call.arg) # <<>>)
        => /\ ~result.ok
           /\ result.exc.enriched
           /\ ErrorFields(result) = MissingRequired(call.cls, call.arg)

\* C1 amended: the same, provided every field present in the document
\* decodes without raising; the error is then a TypeError whatever error
\* types are configured.
C1_MissingListedWhenPresentDecode ==
    (/\ call.op = "from_dict"
     /\ MissingRequired(call.cls, call.arg) # <<>>
     /\ PresentFieldsDecode(call.cls, call.arg))
        => /\ ~result.ok
           /\ result.exc.type = "TypeError"
           /\ result.exc.enriched
           /\ ErrorFields(result) = MissingRequired(call.cls, call.arg)

\* two required fields absent, a defaulted field absent, a field present
C1_Witness ==
    /\ call.op = "from_dict"
    /\ call.cls = "R1"
    /\ DictHas(call.arg[2], StrV("b"))
    /\ ~DictHas(call.arg[2], StrV("c"))
    /\ MissingRequired(call.cls, call.arg) = <<"a", "d">>
    /\ ~result.ok
    /\ ErrorFields(result) = <<"a", "d">>

\* the classes whose fields are of primitive, list, fixed tuple, variadic
\* tuple, dict and nested record types
RoundTripClasses == {"B", "R1", "RL", "RT", "RV", "RD", "RN"}

\* C2 as stated: decoding the document to_dict produced for an instance
\* gives an instance equal to it field by field.
C2_RoundTrip ==
    (call.op = "to_dict" /\ call.cls \in RoundTripClasses)
        => LET decoded == from_dict(call.cls, result.val[2])
           IN decoded.ok /\ PyEq(decoded.val, call.arg)

\* the same without the variadic tuple field
C2_RoundTripFixedShapes ==
    (call.op = "to_dict" /\ call.cls \in RoundTripClasses \ {"RV"})
        => LET decoded == from_dict(call.cls, result.val[2])
           IN decoded.ok /\ PyEq(decoded.val, call.arg)

\* the error construction, from_dict and from_json raise with no error type
\* substituted has this list
DefaultErrorList(op, cls, arg) ==
    CASE op = "construct" -> validate_model(cls, arg[2]).exc.errors
      [] op = "from_dict" -> from_dict(cls, arg[2]).exc.errors
      [] op = "from_json" -> from_dict(cls, json_loads(arg).val[2]).exc.errors

FailsOnFields(op, cls, arg) ==
    CASE op = "construct" -> ~validate_model(cls, arg[2]).ok
      [] op = "from_dict" -> LET r == from_dict(cls, arg[2]) IN ~r.ok /\ r.exc.enriched
      [] op = "from_json" ->
            /\ json_loads(arg).ok
            /\ json_loads(arg).val[1] = "dict"
            /\ LET r == from_dict(cls, json_loads(arg).val[2])
               IN ~r.ok /\ r.exc.enriched
      [] OTHER -> FALSE

\* C3 as stated: whatever error types are substituted, a call failing on
\* offending or missing fields raises an exception carrying the list the
\* default error carries.
C3_ListKept ==
    FailsOnFields(call.op, call.cls, call.arg)
        => /\ ~result.ok
           /\ result.exc.enriched
           /\ result.exc.errors = DefaultErrorList(call.op, call.cls, call.arg)

\* the value given for the only field of the record under construction
OnlyArg == call.arg[2][1]

OptionalClasses == {"RO", "RO2", "RO3", "RB2"}

\* the T of a field declared Optional[T]
OptionalOf(cls) == get_generic_field_meta(FieldMap(cls)[1].annotation.a[1])

\* C8 as stated: for a field Optional[T], None passes, a value valid for T
\* passes, everything else fails.
C8_OnlyNoneOrT ==
    (call.op = "construct" /\ call.cls \in OptionalClasses)
        => (result.ok <=> \/ OnlyArg = NoneV
                          \/ validate_field_value(OnlyArg, OptionalOf(call.cls)))

\* C8 amended: a value equal to the declared default passes too.
C8_NoneOrTOrDefault ==
    (call.op = "construct" /\ call.cls \in OptionalClasses)
        => (result.ok <=> \/ OnlyArg = NoneV
                          \/ validate_field_value(OnlyArg, OptionalOf(call.cls))
                          \/ PyEq(OnlyArg, Parameters(call.cls)[1][3]))

\* 0.0 given for an Optional[int] declared with default 0
C8_Witness ==
    /\ call.op = "construct"
    /\ call.cls = "RO2"
    /\ OnlyArg = FloatV(0)
    /\ result.ok

\* C9 as stated: a field declared bare dict, alone or inside Optional,
\* fails validation for every value.
C9_BareDictAlwaysInvalid ==
    (call.op = "construct" /\ call.cls \in {"RB", "RB2"})
        => /\ ~result.ok
           /\ ErrorFields(result) = <<"d">>

\* the positions of a list that are not of the element type int
OffendingIndices(items) == {p \in 1..Len(items) : ~IsInstance(items[p], "int")}

\* C10 as stated: validation of a List[int] field reports one entry per
\* offending element, each identifying the element's index.
C10_IndexReported ==
    (call.op = "construct" /\ call.cls = "RL" /\ OnlyArg[1] = "list")
        => \A p \in OffendingIndices(OnlyArg[2]) :
              /\ ~result.ok
              /\ \E i \in 1..Len(result.exc.errors) :
                    /\ result.exc.errors[i].field = "l"
                    /\ "index" \in DOMAIN result.exc.errors[i]
                    /\ result.exc.errors[i].index = p

(***************************************************************************)
(* Threads.  A thread makes one call; a step is what runs between two      *)
(* points where the interpreter may switch threads.                        *)
(***************************************************************************)
NumThreads == 2

Threads == 1..NumThreads

RegistryKinds == {"decoder", "encoder", "schema"}

\* the matchers the threads register and look up
RegTypes == {"int", "str", "object"}

\* the classes whose field table the threads ask for
CachedClasses == {"B", "RN", "R1"}

\* began and ended count the registrations made when a lookup started and
\* when it returned, seen lists the entries it examined
NoJob == [op |-> "none", kind |-> "", type |-> "", cb |-> "", on_dict |-> FALSE,
          pos |-> 0, used |-> 0, pass |-> 0, began |-> 0, ended |-> 0, seen |-> <<>>]

ThreadsIdle ==
    /\ lock = [k \in RegistryKinds |-> 0]
    /\ pc = [t \in Threads |-> "idle"]
    /\ job = [t \in Threads |-> NoJob]
    /\ outcome = [t \in Threads |-> "none"]
    /\ history = <<>>
    /\ field_map = [c \in CachedClasses |-> 0]
    /\ heap = [t \in Threads |-> <<>>]

\* Kobject.set_decoder_resolver / set_encoder_resolver / set_schema_resolver
\* called by thread t with a callback of its own
StartRegister(t) ==
    /\ pc[t] = "idle"
    /\ \E kind \in RegistryKinds : \E type \in RegTypes : \E on_dict \in BOOLEAN :
          /\ kind # "encoder" => on_dict
          /\ job' = [job EXCEPT ![t] = [NoJob EXCEPT !.op = "register",
                                                     !.kind = kind,
                                                     !.type = type,
                                                     !.cb = "cb" \o ToString(t),
                                                     !.on_dict = on_dict]]
    /\ pc' = [pc EXCEPT ![t] = "acquire"]
    /\ UNCHANGED <<lock, outcome, history, field_map, heap>>
    /\ UNCHANGED <<apiVars, registryVars, schemaVars, cacheVars, classVars>>

\* with cls._lock: entered
Acquire(t) ==
    /\ pc[t] = "acquire"
    /\ lock[job[t].kind] = 0
    /\ lock' = [lock EXCEPT ![job[t].kind] = t]
    /\ pc' = [pc EXCEPT ![t] = "insert"]
    /\ UNCHANGED <<job, outcome, history, field_map, heap>>
    /\ UNCHANGED <<apiVars, registryVars, schemaVars, cacheVars, classVars>>

\* JSONEncoder.register_resolver's assignment to the dict: the entry of a
\* key already present is replaced where it stands, a new key goes last
EncoderAssign(items, type, cb, on_dict) ==
    IF \E i \in 1..Len(items) : items[i].type = type
    THEN [i \in 1..Len(items) |->
            IF items[i].type = type
            THEN [type |-> type, cb |-> cb, on_dict |-> on_dict]
            ELSE items[i]]
    ELSE Append(items, [type |-> type, cb |-> cb, on_dict |-> on_dict])

\* the statement under the lock
Insert(t) ==
    /\ pc[t] = "insert"
    /\ LET j == job[t]
       IN /\ types_resolver' =
                IF j.kind = "decoder"
                THEN InsertFront(types_resolver, [type |-> j.type, cb |-> j.cb])
                ELSE types_resolver
          /\ schema_resolvers' =
                IF j.kind = "schema"
                THEN InsertFront(schema_resolvers, [type |-> j.type, cb |-> j.cb])
                ELSE schema_resolvers
          /\ base_types_resolver' =
                IF j.kind = "encoder"
                THEN EncoderAssign(base_types_resolver, j.type, j.cb, j.on_dict)
                ELSE base_types_resolver
          /\ history' = Append(history, [kind |-> j.kind, type |-> j.type,
                                         cb |-> j.cb, on_dict |-> j.on_dict])
    /\ pc' = [pc EXCEPT ![t] = "release"]
    /\ UNCHANGED <<lock, job, outcome, field_map, heap>>
    /\ UNCHANGED <<apiVars, schemaVars, cacheVars, classVars>>

\* with cls._lock: left
Release(t) ==
    /\ pc[t] = "release"
    /\ lock' = [lock EXCEPT ![job[t].kind] = 0]
    /\ pc' = [pc EXCEPT ![t] = "done"]
    /\ outcome' = [outcome EXCEPT ![t] = "ok"]
    /\ UNCHANGED <<job, history, field_map, heap>>
    /\ UNCHANGED <<apiVars, registryVars, schemaVars, cacheVars, classVars>>

\* a lookup starts: JSONDecoder.type_caster for a value of type type, or
\* JSONEncoder.default / dict_default for an object of type type; the for
\* statement makes its iterator, a dict iterator remembering the size
StartLookup(t) ==
    /\ pc[t] = "idle"
    /\ \E kind \in {"decoder", "encoder"} : \E type \in RegTypes : \E on_dict \in BOOLEAN :
          /\ kind # "encoder" => on_dict
          /\ job' = [job EXCEPT ![t] = [NoJob EXCEPT !.op = "lookup",
                                                     !.kind = kind,
                                                     !.type = type,
                                                     !.on_dict = on_dict,
                                                     !.began = Len(history),
                                                     !.used = IF kind = "encoder"
                                                              THEN Len(base_types_resolver)
                                                              ELSE 0]]
    /\ pc' = [pc EXCEPT ![t] = "next"]
    /\ UNCHANGED <<lock, outcome, history, field_map, heap>>
    /\ UNCHANGED <<apiVars, registryVars, schemaVars, cacheVars, classVars>>

\* one turn of the loop over the decoder list: the list iterator yields
\* the entry at its index, if the list is that long
DecoderNext(t) ==
    /\ pc[t] = "next"
    /\ job[t].kind = "decoder"
    /\ LET j == job[t]
       IN IF j.pos >= Len(types_resolver)
          THEN /\ outcome' = [outcome EXCEPT ![t] = "unchanged"]
               /\ pc' = [pc EXCEPT ![t] = "done"]
               /\ job' = [job EXCEPT ![t].ended = Len(history)]
          ELSE IF checker(Cls(j.type), types_resolver[j.pos + 1].type)
          THEN /\ outcome' = [outcome EXCEPT ![t] = types_resolver[j.pos + 1].cb]
               /\ pc' = [pc EXCEPT ![t] = "done"]
               /\ job' = [job EXCEPT ![t].ended = Len(history),
                                     ![t].seen = Append(@, types_resolver[j.pos + 1])]
          ELSE /\ job' = [job EXCEPT ![t].pos = j.pos + 1,
                                     ![t].seen = Append(@, types_resolver[j.pos + 1])]
               /\ UNCHANGED <<outcome, pc>>
    /\ UNCHANGED <<lock, history, field_map, heap>>
    /\ UNCHANGED <<apiVars, registryVars, schemaVars, cacheVars, classVars>>

\* one turn of the loop over base_types_resolver.items(): the dict
\* iterator raises when the dict has changed size since the loop began
EncoderNext(t) ==
    /\ pc[t] = "next"
    /\ job[t].kind = "encoder"
    /\ LET j == job[t]
       IN IF Len(base_types_resolver) # j.used
          THEN /\ outcome' = [outcome EXCEPT ![t] = "RuntimeError"]
               /\ pc' = [pc EXCEPT ![t] = "done"]
               /\ job' = job
          ELSE IF j.pos >= Len(base_types_resolver)
          THEN /\ outcome' = [outcome EXCEPT ![t] = "unchanged"]
               /\ pc' = [pc EXCEPT ![t] = "done"]
               /\ job' = job
          ELSE IF /\ IsSubclass(j.type, base_types_resolver[j.pos + 1].type)
                  /\ (j.on_dict => base_types_resolver[j.pos + 1].on_dict)
          THEN /\ outcome' = [outcome EXCEPT ![t] = base_types_resolver[j.pos + 1].cb]
               /\ pc' = [pc EXCEPT ![t] = "done"]
               /\ job' = job
          ELSE /\ job' = [job EXCEPT ![t].pos = j.pos + 1]
               /\ UNCHANGED <<outcome, pc>>
    /\ UNCHANGED <<lock, history, field_map, heap>>
    /\ UNCHANGED <<apiVars, registryVars, schemaVars, cacheVars, classVars>>

\* JSONSchemaGenerator.get_schema_for_type for a class is called by thread
\* t: the first for statement over schema_resolvers is reached
StartSchemaLookup(t) ==
    /\ pc[t] = "idle"
    /\ \E type \in RegTypes :
          job' = [job EXCEPT ![t] = [NoJob EXCEPT !.op = "lookup",
                                                  !.kind = "schema",
                                                  !.type = type,
                                                  !.pass = 1,
                                                  !.began = Len(history)]]
    /\ pc' = [pc EXCEPT ![t] = "next"]
    /\ UNCHANGED <<lock, outcome, history, field_map, heap>>
    /\ UNCHANGED <<apiVars, registryVars, schemaVars, cacheVars, classVars>>

\* one turn of the loops over schema_resolvers: the first loop returns the
\* resolver registered for exactly the class, the second, begun when the
\* first ends, the resolver of a class it is a subclass of; after both the
\* built-in mapping is used
SchemaLookupNext(t) ==
    /\ pc[t] = "next"
    /\ job[t].kind = "schema"
    /\ LET j == job[t]
       IN IF j.pos >= Len(schema_resolvers)
          THEN IF j.pass = 1
               THEN /\ job' = [job EXCEPT ![t].pass = 2, ![t].pos = 0]
                    /\ UNCHANGED <<outcome, pc>>
               ELSE /\ outcome' = [outcome EXCEPT ![t] = "builtin"]
                    /\ pc' = [pc EXCEPT ![t] = "done"]
                    /\ job' = [job EXCEPT ![t].ended = Len(history)]
          ELSE IF \/ j.pass = 1 /\ schema_resolvers[j.pos + 1].type = j.type
                  \/ j.pass = 2 /\ IsSubclass(j.type, schema_resolvers[j.pos + 1].type)
          THEN /\ outcome' = [outcome EXCEPT ![t] = schema_resolvers[j.pos + 1].cb]
               /\ pc' = [pc EXCEPT ![t] = "done"]
               /\ job' = [job EXCEPT ![t].ended = Len(history),
                                     ![t].seen = Append(@, schema_resolvers[j.pos + 1])]
          ELSE /\ job' = [job EXCEPT ![t].pos = j.pos + 1,
                                     ![t].seen = Append(@, schema_resolvers[j.pos + 1])]
               /\ UNCHANGED <<outcome, pc>>
    /\ UNCHANGED <<lock, history, field_map, heap>>
    /\ UNCHANGED <<apiVars, registryVars, schemaVars, cacheVars, classVars>>

\* the registrations other callers make while lookups run
MaxInserts == 2

\* register_resolver of the decoder or the schema registry by another
\* caller: with cls._lock, the entry is inserted at the front
register_resolver ==
    /\ Len(history) < MaxInserts
    /\ \E kind \in {"decoder", "schema"} : \E type \in RegTypes :
          LET cb == "cb" \o ToString(Len(history) + 1)
          IN /\ lock[kind] = 0
             /\ types_resolver' =
                   IF kind = "decoder"
                   THEN InsertFront(types_resolver, [type |-> type, cb |-> cb])
                   ELSE types_resolver
             /\ schema_resolvers' =
                   IF kind = "schema"
                   THEN InsertFront(schema_resolvers, [type |-> type, cb |-> cb])
                   ELSE schema_resolvers
             /\ history' = Append(history, [kind |-> kind, type |-> type,
                                            cb |-> cb, on_dict |-> TRUE])
    /\ UNCHANGED base_types_resolver
    /\ UNCHANGED <<lock, pc, job, outcome, field_map, heap>>
    /\ UNCHANGED <<apiVars, schemaVars, cacheVars, classVars>>

\* a decoder lookup starts
StartDecoderLookup(t) ==
    /\ StartLookup(t)
    /\ job'[t].kind = "decoder"

\* the thread that looks up
Lookers == {CHOOSE t \in Threads : \A u \in Threads : t <= u}

\* lookups of the decoder and the schema registry while others register
LookupNext ==
    \/ register_resolver
    \/ \E t \in Lookers :
          \/ StartDecoderLookup(t)
          \/ DecoderNext(t)
          \/ StartSchemaLookup(t)
          \/ SchemaLookupNext(t)

\* the registry threads
RegistryNext ==
    \E t \in Threads :
        \/ StartRegister(t)
        \/ Acquire(t)
        \/ Insert(t)
        \/ Release(t)
        \/ StartLookup(t)
        \/ DecoderNext(t)
        \/ EncoderNext(t)

(***************************************************************************)
(* Kobject._with_field_map called by several threads (core.py).  The       *)
(* lists it creates are objects: heap[t] is the list thread t created,     *)
(* field_map holds which list a class is bound to.                         *)
(***************************************************************************)
\* cls._with_field_map() is called by thread t
StartFieldMap(t) ==
    /\ pc[t] = "idle"
    /\ \E cls \in CachedClasses :
          job' = [job EXCEPT ![t] = [NoJob EXCEPT !.op = "with_field_map", !.kind = cls]]
    /\ pc' = [pc EXCEPT ![t] = "check"]
    /\ UNCHANGED <<lock, outcome, history, field_map, heap>>
    /\ UNCHANGED <<apiVars, registryVars, schemaVars, cacheVars, classVars>>

\* if cls.__field_map.get(cls) is None
CheckFieldMap(t) ==
    /\ pc[t] = "check"
    /\ pc' = [pc EXCEPT ![t] = IF field_map[job[t].kind] = 0 THEN "reset" ELSE "return"]
    /\ UNCHANGED <<lock, job, outcome, history, field_map, heap>>
    /\ UNCHANGED <<apiVars, registryVars, schemaVars, cacheVars, classVars>>

\* cls.__field_map[cls] = []
ResetFieldMap(t) ==
    /\ pc[t] = "reset"
    /\ heap' = [heap EXCEPT ![t] = <<>>]
    /\ field_map' = [field_map EXCEPT ![job[t].kind] = t]
    /\ job' = [job EXCEPT ![t].pos = 1]
    /\ pc' = [pc EXCEPT ![t] = "fetch"]
    /\ UNCHANGED <<lock, outcome, history>>
    /\ UNCHANGED <<apiVars, registryVars, schemaVars, cacheVars, classVars>>

\* the loop over the parameters: it ends, or cls.__field_map[cls] is read
\* for the append
FetchFieldMap(t) ==
    /\ pc[t] = "fetch"
    /\ IF job[t].pos > Len(Parameters(job[t].kind))
       THEN /\ pc' = [pc EXCEPT ![t] = "return"]
            /\ job' = job
       ELSE /\ pc' = [pc EXCEPT ![t] = "append"]
            /\ job' = [job EXCEPT ![t].used = field_map[job[t].kind]]
    /\ UNCHANGED <<lock, outcome, history, field_map, heap>>
    /\ UNCHANGED <<apiVars, registryVars, schemaVars, cacheVars, classVars>>

\* .append(FieldMeta.new_one(...)) on the list read
AppendFieldMap(t) ==
    /\ pc[t] = "append"
    /\ LET param == Parameters(job[t].kind)[job[t].pos]
       IN heap' = [heap EXCEPT ![job[t].used] =
                      Append(@, new_one(param[1], param[2], param[3]))]
    /\ job' = [job EXCEPT ![t].pos = @ + 1]
    /\ pc' = [pc EXCEPT ![t] = "fetch"]
    /\ UNCHANGED <<lock, outcome, history, field_map>>
    /\ UNCHANGED <<apiVars, registryVars, schemaVars, cacheVars, classVars>>

\* return cls.__field_map[cls]: the caller holds the list
ReturnFieldMap(t) ==
    /\ pc[t] = "return"
    /\ job' = [job EXCEPT ![t].used = field_map[job[t].kind]]
    /\ outcome' = [outcome EXCEPT ![t] = "ok"]
    /\ pc' = [pc EXCEPT ![t] = "done"]
    /\ UNCHANGED <<lock, history, field_map, heap>>
    /\ UNCHANGED <<apiVars, registryVars, schemaVars, cacheVars, classVars>>

\* the table the caller t of _with_field_map holds
TableOf(t) == heap[job[t].used]

(***************************************************************************)
(* Kobject._with_field_map and FieldMeta.get_generic_field_meta called by  *)
(* one caller, through the operations that use them (core.py, fields.py).  *)
(* objects[id] is the list object with identity id; a memoized FieldMeta   *)
(* carries the identity it was created with.                               *)
(***************************************************************************)
MaxCalls == 3

\* the operations that ask for the field table of their class
FieldOperations == {"construct", "from_dict", "dict", "generate"}

\* the annotations validation asks a generic FieldMeta for
AnyTypes == {Cls("int"), Cls("B"), ListT(Cls("int"))}

\* nothing was asked for yet
CacheEmpty ==
    /\ objects = <<>>
    /\ base_any_type = <<>>
    /\ returned = <<>>

\* a test that never finds the table
field_map_missing_always(table, cls) == TRUE

\* cls.__field_map.get(cls) is None
field_map_missing(table, cls) == table[cls] = 0

\* __base_any_type__.get(any_type): the position of the key, 0 for None
base_any_type_get(any_type) ==
    IF \E i \in 1..Len(base_any_type) : base_any_type[i].key = any_type
    THEN CHOOSE i \in 1..Len(base_any_type) : base_any_type[i].key = any_type
    ELSE 0

\* the number of FieldMeta objects get_generic_field_meta has made
MetaMade ==
    Cardinality({returned[i].id : i \in {j \in 1..Len(returned) : returned[j].fn = "meta"}})

\* an operation calls cls._with_field_map(): the first call for the class
\* binds a new list and fills it from the signature, every call returns
\* the list the class is bound to
WithFieldMap ==
    /\ call.op = "idle"
    /\ Len(returned) < MaxCalls
    /\ \E op \in FieldOperations : \E cls \in CachedClasses :
          LET missing == field_map_missing(field_map, cls)
              id == IF missing THEN Len(objects) + 1 ELSE field_map[cls]
          IN /\ objects' = IF missing THEN Append(objects, FieldMap(cls)) ELSE objects
             /\ field_map' = IF missing THEN [field_map EXCEPT ![cls] = id] ELSE field_map
             /\ returned' = Append(returned,
                                   [fn |-> "fields", op |-> op, key |-> Cls(cls), id |-> id])
    /\ UNCHANGED <<lock, pc, job, outcome, history, heap, base_any_type>>
    /\ UNCHANGED <<apiVars, registryVars, schemaVars, classVars>>

\* FieldMeta.get_generic_field_meta(any_type), as validation calls it for
\* the element types of a generic field
GenericFieldMeta ==
    /\ call.op = "idle"
    /\ Len(returned) < MaxCalls
    /\ \E any_type \in AnyTypes :
          LET found == base_any_type_get(any_type)
              id == IF found # 0 THEN base_any_type[found].id ELSE MetaMade + 1
          IN /\ base_any_type' =
                    IF found # 0 THEN base_any_type
                    ELSE Append(base_any_type,
                                [key |-> any_type, id |-> id,
                                 obj |-> get_generic_field_meta(any_type)])
             /\ returned' = Append(returned,
                                   [fn |-> "meta", op |-> "validate", key |-> any_type,
                                    id |-> id])
    /\ UNCHANGED <<lock, pc, job, outcome, history, field_map, heap, objects>>
    /\ UNCHANGED <<apiVars, registryVars, schemaVars, classVars>>

CacheNext ==
    \/ WithFieldMap
    \/ GenericFieldMeta

FieldMapNext ==
    \E t \in Threads :
        \/ StartFieldMap(t)
        \/ CheckFieldMap(t)
        \/ ResetFieldMap(t)
        \/ FetchFieldMap(t)
        \/ AppendFieldMap(t)
        \/ ReturnFieldMap(t)


(***************************************************************************)
(* Schema generation (schema.py).  generate and the recursion of           *)
(* get_schema_for_type and _generate_object_schema run as a stack of       *)
(* frames, one per record class whose fields are being visited.            *)
(***************************************************************************)
MaxFields == 2

\* the record classes of a graph; N3 has one int field and N4, a distinct
\* class defined under the name of N3, one str field
SchemaNodes == {"N1", "N2", "N3", "N4"}

\* klass.__name__
class_name(klass) == IF klass = "N4" THEN "N3" ELSE klass

\* the annotations a field refers to a class by
FieldTypes ==
    {Cls("int"), OptionalT(Cls("N1")), ListT(Cls("N2")), Cls("N3"), Cls("N4")}

Graphs ==
    {[n \in SchemaNodes |-> IF n = "N1" THEN f1
                            ELSE IF n = "N2" THEN f2
                            ELSE IF n = "N3" THEN <<Cls("int")>>
                            ELSE <<Cls("str")>>] :
        f1 \in SeqsUpTo(FieldTypes, MaxFields), f2 \in SeqsUpTo(FieldTypes, MaxFields)}

\* schema nodes
RefSchema(ref_name) == <<"$ref", ref_name>>

\* the node get_schema_for_type returns for an annotation; a record class
\* gives a reference to its name
RECURSIVE SchemaNode(_)
SchemaNode(attr_type) ==
    CASE attr_type = Cls("int") -> <<"integer", "">>
      [] attr_type = Cls("str") -> <<"string", "">>
      [] attr_type = Cls("NoneType") -> <<"null", "">>
      [] isclass(attr_type) /\ attr_type.n \in SchemaNodes
            -> RefSchema(class_name(attr_type.n))
      [] is_union(attr_type) -> <<"anyOf", [i \in 1..Len(attr_type.a) |->
                                               SchemaNode(attr_type.a[i])]>>
      [] attr_type.n = "list" -> <<"array", SchemaNode(attr_type.a[1])>>
      [] OTHER -> <<"any", "">>

\* get_schema_for_type for a class: a registered resolver when one matches,
\* else the built-in mapping of the primitive classes, else the enum
\* mapping, else the reference to a record class
get_schema_for_class(resolvers, attr_type) ==
    IF schema_entry(resolvers, attr_type) # 0
    THEN <<"resolver", resolvers[schema_entry(resolvers, attr_type)].cb>>
    ELSE IF attr_type.n = "NoneType" THEN <<"null", "">>
    ELSE IF attr_type.n = "str" THEN <<"string", "">>
    ELSE IF attr_type.n = "int" THEN <<"integer", "">>
    ELSE IF attr_type.n = "float" THEN <<"number", "">>
    ELSE IF attr_type.n = "bool" THEN <<"boolean", "">>
    ELSE IF IsSubclass(attr_type.n, "Enum") THEN <<"enum", attr_type.n>>
    ELSE IF IsSubclass(attr_type.n, "Kobject") /\ attr_type.n # "Kobject"
         THEN RefSchema(attr_type.n)
    ELSE <<"any", "">>

\* the record classes get_schema_for_type meets in an annotation, in the
\* order it meets them
RECURSIVE RecordsIn(_)
RECURSIVE RecordsInArgs(_, _)
RecordsIn(attr_type) ==
    IF isclass(attr_type)
    THEN IF attr_type.n \in SchemaNodes THEN <<attr_type.n>> ELSE <<>>
    ELSE IF attr_type.n = "list" THEN RecordsIn(attr_type.a[1])
    ELSE RecordsInArgs(attr_type.a, 1)

RecordsInArgs(args, i) ==
    IF i > Len(args) THEN <<>>
    ELSE RecordsIn(args[i]) \o RecordsInArgs(args, i + 1)

NoSchema == [done |-> FALSE, klass |-> "", properties |-> <<>>, defs |-> <<>>]

SchemaIdle ==
    /\ stack = <<>>
    /\ defs = <<>>
    /\ processed = {}
    /\ schema = NoSchema

\* JSONSchemaGenerator.generate(klass) is entered
StartGenerate ==
    /\ stack = <<>>
    /\ \E klass \in SchemaNodes :
          /\ processed' = {klass}
          /\ stack' = <<[klass |-> klass, pos |-> 1, properties |-> <<>>]>>
    /\ defs' = <<>>
    /\ schema' = NoSchema
    /\ UNCHANGED graph
    /\ UNCHANGED <<apiVars, registryVars, threadVars, cacheVars, classVars>>

\* the frame on top and the field it stands at
Top == stack[Len(stack)]

TopUnprocessed ==
    SelectSeq(RecordsIn(graph[Top.klass][Top.pos]), LAMBDA n : n \notin processed)

\* get_schema_for_type meets a record class not yet processed: it is added
\* to processed and _generate_object_schema is entered for it
Descend ==
    /\ stack # <<>>
    /\ Top.pos <= Len(graph[Top.klass])
    /\ TopUnprocessed # <<>>
    /\ processed' = processed \cup {TopUnprocessed[1]}
    /\ stack' = Append(stack, [klass |-> TopUnprocessed[1], pos |-> 1, properties |-> <<>>])
    /\ UNCHANGED <<graph, defs, schema>>
    /\ UNCHANGED <<apiVars, registryVars, threadVars, cacheVars, classVars>>

\* the schema of the field is complete: properties[fld.name] = prop_schema
EmitProperty ==
    /\ stack # <<>>
    /\ Top.pos <= Len(graph[Top.klass])
    /\ TopUnprocessed = <<>>
    /\ stack' = [stack EXCEPT ![Len(stack)] =
                    [@ EXCEPT !.pos = @ + 1,
                              !.properties =
                                  Append(@, <<"f" \o ToString(Top.pos),
                                              SchemaNode(graph[Top.klass][Top.pos])>>)]]
    /\ UNCHANGED <<graph, defs, processed, schema>>
    /\ UNCHANGED <<apiVars, registryVars, threadVars, cacheVars, classVars>>

\* _generate_object_schema returns: defs[class_name] = nested_schema
ReturnObject ==
    /\ Len(stack) > 1
    /\ Top.pos > Len(graph[Top.klass])
    /\ defs' = IF \E i \in 1..Len(defs) : defs[i][1] = class_name(Top.klass)
                THEN [i \in 1..Len(defs) |->
                        IF defs[i][1] = class_name(Top.klass)
                        THEN <<class_name(Top.klass), <<"object", Top.properties>>>>
                        ELSE defs[i]]
                ELSE Append(defs, <<class_name(Top.klass), <<"object", Top.properties>>>>)
    /\ stack' = SubSeq(stack, 1, Len(stack) - 1)
    /\ UNCHANGED <<graph, processed, schema>>
    /\ UNCHANGED <<apiVars, registryVars, threadVars, cacheVars, classVars>>

\* generate returns the document, with $defs when defs is not empty
ReturnSchema ==
    /\ Len(stack) = 1
    /\ Top.pos > Len(graph[Top.klass])
    /\ schema' = [done |-> TRUE, klass |-> Top.klass,
                  properties |-> Top.properties, defs |-> defs]
    /\ stack' = <<>>
    /\ UNCHANGED <<graph, defs, processed>>
    /\ UNCHANGED <<apiVars, registryVars, threadVars, cacheVars, classVars>>

SchemaNext ==
    \/ StartGenerate
    \/ Descend
    \/ EmitProperty
    \/ ReturnObject
    \/ ReturnSchema

(***************************************************************************)
(* Specifications.                                                         *)
(***************************************************************************)
vars == <<apiVars, registryVars, threadVars, schemaVars, cacheVars, classVars>>

\* the single-threaded API
Init ==
    /\ ApiInit
    /\ RegistryInit
    /\ ThreadsIdle
    /\ SchemaIdle
    /\ graph = [n \in SchemaNodes |-> <<>>]
    /\ CacheEmpty
    /\ NoOwnSettings

Next ==
    \/ set_validation_custom_exception
    \/ set_lazy_type_check
    \/ set_content_check_custom_exception
    \/ Construct
    \/ FromDict
    \/ FromJson
    \/ ToDict
    \/ Done

Spec == Init /\ [][Next]_vars

\* threads registering resolvers and looking them up
SpecRegistry == Init /\ [][RegistryNext]_vars

\* one caller changing the error settings and constructing
SpecSettings == Init /\ [][SettingsNext]_vars

\* one caller decoding documents and payloads
SpecDecode == Init /\ [][DecodeNext]_vars

\* one caller encoding instances
SpecEncode == Init /\ [][EncodeNext]_vars

\* threads looking resolvers up while other callers register
SpecLookup == Init /\ [][LookupNext]_vars

\* one caller whose operations ask for field tables and generic metadata
SpecCache == Init /\ [][CacheNext]_vars

\* threads asking for field tables
SpecFieldMap == Init /\ [][FieldMapNext]_vars

\* schema generation over the graphs
SchemaInit ==
    /\ ApiInit
    /\ RegistryInit
    /\ ThreadsIdle
    /\ SchemaIdle
    /\ graph \in Graphs
    /\ CacheEmpty
    /\ NoOwnSettings

SpecSchema == SchemaInit /\ [][SchemaNext]_vars


\* schema generation with every enabled step eventually taken
SpecSchemaFair == SpecSchema /\ WF_vars(SchemaNext)

(***************************************************************************)
(* Properties of the threads.                                              *)
(***************************************************************************)
\* C4 as stated: every caller of the field table builder, under every
\* interleaving of first-time builds, holds the complete table: one entry
\* per declared field in declaration order, never empty, partial or
\* duplicated.
C4_CompleteTable ==
    \A t \in Threads :
        (pc[t] = "done" /\ job[t].op = "with_field_map")
            => TableOf(t) = FieldMap(job[t].kind)

\* the registrations a registry received, in the order of the inserts
Registered(kind) == SelectSeq(history, LAMBDA h : h.kind = kind)

Reverse(s) == [i \in 1..Len(s) |-> s[Len(s) + 1 - i]]

ListEntries(regs) == [i \in 1..Len(regs) |-> [type |-> regs[i].type, cb |-> regs[i].cb]]

\* the position of the first registration of a matcher
FirstRegistered(regs, type) ==
    CHOOSE i \in 1..Len(regs) :
        regs[i].type = type /\ \A j \in 1..(i - 1) : regs[j].type # type

C6_NoLookupError ==
    \A t \in Threads : job[t].op = "lookup" => outcome[t] # "RuntimeError"

(***************************************************************************)
(* Properties of schema generation.                                        *)
(***************************************************************************)
\* the record classes the fields of the classes in from refer to
Referred(from) ==
    {n \in SchemaNodes :
        \E m \in from : \E i \in 1..Len(graph[m]) :
            \E p \in 1..Len(RecordsIn(graph[m][i])) : RecordsIn(graph[m][i])[p] = n}

\* the record classes a definition is needed for: those referred to from
\* the root, directly or through other classes
RECURSIVE Close(_)
Close(found) ==
    IF Referred(found) \subseteq found THEN found
    ELSE Close(found \cup Referred(found))

Involved(klass) == Close(Referred({klass}))

\* C7 as stated: the document generate returns has exactly one $defs entry
\* for each record type involved in the graph, the root's own type included
\* when a cycle leads back to it.
C7_OneDefPerRecordType ==
    schema.done
        => \A n \in Involved(schema.klass) :
              Cardinality({i \in 1..Len(schema.defs) :
                              schema.defs[i][1] = class_name(n)}) = 1

\* the same for the record types other than the root
C7_OneDefPerNestedType ==
    schema.done
        => \A n \in Involved(schema.klass) \ {schema.klass} :
              Cardinality({i \in 1..Len(schema.defs) :
                              schema.defs[i][1] = class_name(n)}) = 1

\* a generation begun returns
C7_Terminates == (stack # <<>>) ~> schema.done


(***************************************************************************)
(* Properties of container validation.                                     *)
(***************************************************************************)
\* C11 as stated: a Tuple[int, str] field is valid exactly when the value
\* is a tuple of length 2 whose first element is an int and whose second
\* is a str.
C11_TuplePositional ==
    (call.op = "construct" /\ call.cls = "RT")
        => (result.ok <=> /\ OnlyArg[1] = "tuple"
                          /\ Len(OnlyArg[2]) = 2
                          /\ IsInstance(OnlyArg[2][1], "int")
                          /\ IsInstance(OnlyArg[2][2], "str"))

\* C12 as stated: a tuple[int, ...] field is valid exactly when the value
\* is a tuple, of any length, whose every element is an int.
C12_VariadicAnyLength ==
    (call.op = "construct" /\ call.cls = "RV")
        => (result.ok <=> /\ OnlyArg[1] = "tuple"
                          /\ \A p \in 1..Len(OnlyArg[2]) : IsInstance(OnlyArg[2][p], "int"))


\* C13 as stated, for lists: a List[Union[int, str]] field is valid exactly
\* when the value is a list whose every element is an int or a str.
C13_ListElements ==
    (call.op = "construct" /\ call.cls \in {"RL", "RLU"})
        => (result.ok <=>
               /\ OnlyArg[1] = "list"
               /\ \A p \in 1..Len(OnlyArg[2]) :
                     \/ IsInstance(OnlyArg[2][p], "int")
                     \/ call.cls = "RLU" /\ IsInstance(OnlyArg[2][p], "str"))

\* C13 as stated, for sets: a Set[int] field is valid exactly when the
\* value is a set whose every element is an int.
C13_SetElements ==
    (call.op = "construct" /\ call.cls = "RS")
        => (result.ok <=> /\ OnlyArg[1] = "set"
                          /\ \A e \in OnlyArg[2] : IsInstance(e, "int"))


\* the fields of the record under construction whose argument does not
\* validate, in declaration order
OffendingFields ==
    SelectSeq(DeclaredNames(call.cls),
              LAMBDA name :
                  \E i \in 1..Len(FieldMap(call.cls)) :
                      /\ FieldMap(call.cls)[i].name = name
                      /\ ~validate_field_value(call.arg[2][i], FieldMap(call.cls)[i]))

C14_WitnessCollectAll ==
    /\ call.op = "construct"
    /\ call.cls = "R1"
    /\ ~lazy_type_check
    /\ OffendingFields = <<"a", "d">>
    /\ ErrorFields(result) = <<"a", "d">>


(***************************************************************************)
(* Properties of resolver priority.                                        *)
(***************************************************************************)
\* the target types looked up
TargetTypes ==
    {Cls("int"), Cls("str"), Cls("bool"), Cls("float"), Cls("B"),
     OptionalT(Cls("str"))}

\* the callback a registry gives for the entry at a position, "" at 0
CallbackAt(resolvers, i) == IF i = 0 THEN "" ELSE resolvers[i].cb

\* C15: a decoder registered for a type T that already has a resolver is
\* the one used for a target of exactly T; a target that matched an entry
\* before and does not match T keeps its resolver; the entries there
\* before keep their order; the encoder and schema registries are not
\* touched.
C15_NewDecoderTakesOver ==
    [][(/\ types_resolver' # types_resolver
        /\ \E i \in 1..Len(types_resolver) :
              types_resolver[i].type = types_resolver'[1].type)
          => LET T == types_resolver'[1].type
             IN /\ CallbackAt(types_resolver', matching_entry(types_resolver', Cls(T)))
                      = types_resolver'[1].cb
                /\ \A target \in TargetTypes :
                      (/\ matching_entry(types_resolver, target) # 0
                       /\ ~checker(target, T))
                          => /\ matching_entry(types_resolver', target) # 0
                             /\ types_resolver'[matching_entry(types_resolver', target)]
                                   = types_resolver[matching_entry(types_resolver, target)]
                /\ Tail(types_resolver') = types_resolver
                /\ base_types_resolver' = base_types_resolver
                /\ schema_resolvers' = schema_resolvers]_vars

\* a thread's decoder for int is in front of the one registered at import,
\* and str targets still reach theirs
C15_Witness ==
    /\ Len(types_resolver) = Len(DefaultTypesResolver) + 1
    /\ types_resolver[1].type = "int"
    /\ types_resolver[1].cb # "identity"
    /\ matching_entry(types_resolver, Cls("int")) = 1
    /\ CallbackAt(types_resolver, matching_entry(types_resolver, Cls("str"))) = "identity"

\* the most recent entry registered for exactly a class, 0 when none is
ExactEntry(resolvers, exact_name) ==
    LET exact == {i \in 1..Len(resolvers) : resolvers[i].type = exact_name}
    IN IF exact = {} THEN 0 ELSE CHOOSE i \in exact : \A j \in exact : i <= j

\* C16 as stated: for a target class with a resolver registered for exactly
\* it, decoding and schema generation use that resolver, also when a
\* resolver for a supertype was registered later.
C16_ExactTypeFirst ==
    \A target \in {t \in TargetTypes : isclass(t)} :
        /\ ExactEntry(types_resolver, target.n) # 0
              => CallbackAt(types_resolver, matching_entry(types_resolver, target))
                    = CallbackAt(types_resolver, ExactEntry(types_resolver, target.n))
        /\ ExactEntry(schema_resolvers, target.n) # 0
              => CallbackAt(schema_resolvers, schema_entry(schema_resolvers, target))
                    = CallbackAt(schema_resolvers, ExactEntry(schema_resolvers, target.n))

\* the same for the schema registry alone
C16_SchemaExactTypeFirst ==
    \A target \in {t \in TargetTypes : isclass(t)} :
        ExactEntry(schema_resolvers, target.n) # 0
            => CallbackAt(schema_resolvers, schema_entry(schema_resolvers, target))
                  = CallbackAt(schema_resolvers, ExactEntry(schema_resolvers, target.n))

\* C17 as stated: the encoder used for a value is the one registered most
\* recently among those whose matcher the value is an instance of.
C17_NewestEncoderFirst ==
    \A obj \in {IntV(1), StrV("x")} :
        LET matching == SelectSeq(Registered("encoder"),
                                  LAMBDA h : IsInstance(obj, h.type))
        IN matching # <<>>
              => /\ FirstEncoder(obj, FALSE) # 0
                 /\ base_types_resolver[FirstEncoder(obj, FALSE)].cb
                       = matching[Len(matching)].cb


(***************************************************************************)
(* Properties of encoding.                                                 *)
(***************************************************************************)
\* a record instance at some position of a value
RECURSIVE ContainsRecord(_)
ContainsRecord(value) ==
    CASE value[1] = "obj" -> TRUE
      [] value[1] \in {"list", "tuple"} ->
            \E i \in 1..Len(value[2]) : ContainsRecord(value[2][i])
      [] value[1] = "dict" ->
            \E i \in 1..Len(value[2]) :
                ContainsRecord(value[2][i][1]) \/ ContainsRecord(value[2][i][2])
      [] OTHER -> FALSE

\* None as a list or tuple element or a dict value at some position
RECURSIVE ContainsNone(_)
ContainsNone(value) ==
    CASE value[1] \in {"list", "tuple"} ->
            \E i \in 1..Len(value[2]) :
                value[2][i] = NoneV \/ ContainsNone(value[2][i])
      [] value[1] = "dict" ->
            \E i \in 1..Len(value[2]) :
                value[2][i][2] = NoneV \/ ContainsNone(value[2][i][2])
      [] value[1] = "obj" ->
            \E i \in 1..Len(value[2][2]) :
                value[2][2][i] = NoneV \/ ContainsNone(value[2][2][i])
      [] OTHER -> FALSE

\* the keys of a document, in order
KeysOf(doc) == [i \in 1..Len(doc[2]) |-> doc[2][i][1][2]]

\* the document an encoding call produced: the one dict() returned, the
\* one read back from the bytes to_json returned
Emitted == IF call.op = "to_json" THEN json_loads(result.val).val ELSE result.val

\* C18 as stated: the document dict() returns holds no record instance at
\* any position, whatever encoders are registered.
C18_NoRecordLeft ==
    call.op = "dict" => ~ContainsRecord(result.val)

\* the part of it the code keeps: a record that is a field value or an
\* element of a list that is a field value is replaced by its own document
C18_DirectRecordsEncoded ==
    (call.op = "dict" /\ call.cls = "RNO")
        => /\ DictGet(result.val[2], StrV("n"))
                = to_dict(call.arg[2][2][1], call.remove_nones)
           /\ ~ContainsRecord(result.val)

\* C19 as stated: with remove_nones the emitted document has no None as a
\* field value, list or tuple element or dict value at any depth and keeps
\* the other fields in order; without it every declared field is emitted.
C19_NoNoneLeft ==
    (call.op \in {"dict", "to_json"} /\ result.ok)
        => IF call.remove_nones
           THEN /\ ~ContainsNone(Emitted)
                /\ KeysOf(Emitted)
                      = SelectSeq(DeclaredNames(call.cls),
                                  LAMBDA name :
                                     \E i \in 1..Len(Parameters(call.cls)) :
                                        /\ Parameters(call.cls)[i][1] = name
                                        /\ call.arg[2][2][i] # NoneV)
           ELSE KeysOf(Emitted) = DeclaredNames(call.cls)

\* the part of it the code keeps: fields that are None are left out
C19_NoneFieldsLeftOut ==
    (call.op \in {"dict", "to_json"} /\ result.ok)
        => IF call.remove_nones
           THEN /\ \A i \in 1..Len(Emitted[2]) : Emitted[2][i][2] # NoneV
                /\ KeysOf(Emitted)
                      = SelectSeq(DeclaredNames(call.cls),
                                  LAMBDA name :
                                     \E i \in 1..Len(Parameters(call.cls)) :
                                        /\ Parameters(call.cls)[i][1] = name
                                        /\ call.arg[2][2][i] # NoneV)
           ELSE KeysOf(Emitted) = DeclaredNames(call.cls)

\* C20 as stated: when every registered encoder applies to documents,
\* to_json returns bytes that parse to exactly the document dict() returns
\* for the same instance and the same remove_nones.
C20_BytesParseToDocument ==
    (/\ call.op = "to_json"
     /\ \A i \in 1..Len(base_types_resolver) : base_types_resolver[i].on_dict)
        => /\ result.ok
           /\ json_loads(result.val).val = to_dict(call.arg, call.remove_nones)


(***************************************************************************)
(* Properties of decoding with registered callbacks.                       *)
(***************************************************************************)
\* the document a decoding call was given
DecodedDoc == IF call.op = "from_json" THEN json_loads(call.arg).val ELSE call.arg

\* the call decodes a document of B that holds x, and the resolver the
\* registry gives for int raises
RaisingResolverMet ==
    /\ call.op \in {"from_dict", "from_json"}
    /\ call.cls = "B"
    /\ call.arg # Malformed
    /\ DecodedDoc[1] = "dict"
    /\ DictHas(DecodedDoc[2], StrV("x"))
    /\ CallbackAt(types_resolver, matching_entry(types_resolver, Cls("int")))
          \in RaisingCallbacks

\* C21 as stated: the exception a resolver callback raises reaches the
\* caller of from_dict and of from_json as it was raised: same type, same
\* content, no structured list.
C21_CallbackErrorUntouched ==
    RaisingResolverMet
        => result = Raise(CallbackException(
                       CallbackAt(types_resolver,
                                  matching_entry(types_resolver, Cls("int")))))

\* the part of it the code keeps: from_dict lets the exception through
C21_FromDictLetsThrough ==
    (RaisingResolverMet /\ call.op = "from_dict")
        => result = Raise(CallbackException(
                       CallbackAt(types_resolver,
                                  matching_entry(types_resolver, Cls("int")))))


(***************************************************************************)
(* Properties of the field table of one caller.                            *)
(***************************************************************************)
\* the first entry of the log for a function and a key
FirstReturned(fn, key) ==
    returned[CHOOSE i \in 1..Len(returned) :
                /\ returned[i].fn = fn /\ returned[i].key = key
                /\ \A j \in 1..(i - 1) : ~(returned[j].fn = fn /\ returned[j].key = key)]

\* C22: whatever operations one caller runs, _with_field_map returns for a
\* class the list object of its first call, holding one entry per declared
\* parameter in declaration order, required exactly when no default is
\* declared; get_generic_field_meta returns for an annotation the object
\* of its first call.
C22_SameTableEveryCall ==
    /\ \A i \in 1..Len(returned) :
          returned[i].id = FirstReturned(returned[i].fn, returned[i].key).id
    /\ \A i \in 1..Len(returned) :
          returned[i].fn = "fields"
              => LET cls == returned[i].key.n
                     table == objects[returned[i].id]
                 IN /\ Len(table) = Len(Parameters(cls))
                    /\ \A k \in 1..Len(table) :
                          /\ table[k].name = Parameters(cls)[k][1]
                          /\ table[k].annotation = Parameters(cls)[k][2]
                          /\ table[k].required <=> (Parameters(cls)[k][3] = EMPTY)
    /\ \A c, d \in CachedClasses :
          (c # d /\ field_map[c] # 0) => field_map[c] # field_map[d]
    /\ \A i, j \in 1..Len(base_any_type) :
          i # j => /\ base_any_type[i].key # base_any_type[j].key
                   /\ base_any_type[i].id # base_any_type[j].id

\* two different operations asked for the table of R1, which declares a
\* default, and a generic FieldMeta was asked for twice
C22_Witness ==
    /\ Len(returned) = MaxCalls
    /\ returned[1].fn = "fields" /\ returned[1].key = Cls("R1")
    /\ returned[1].op = "construct"
    /\ returned[MaxCalls].fn = "fields" /\ returned[MaxCalls].key = Cls("R1")
    /\ returned[MaxCalls].op = "dict"
    /\ objects[returned[MaxCalls].id][3].required = FALSE

\* a generic FieldMeta was asked for twice for one annotation
C22_WitnessMeta ==
    /\ Len(returned) >= 2
    /\ returned[1].fn = "meta"
    /\ returned[2].fn = "meta"
    /\ returned[1].key = returned[2].key


(***************************************************************************)
(* Properties of schema dispatch.                                          *)
(***************************************************************************)
\* the classes dispatched
SchemaTargets == {Cls("int"), Cls("str"), Cls("bool"), Cls("Color"), Cls("B")}

\* what the built-in mappings give for a class, in their order
BuiltInSchema(attr_type) ==
    CASE attr_type.n = "str" -> <<"string", "">>
      [] attr_type.n = "int" -> <<"integer", "">>
      [] attr_type.n = "bool" -> <<"boolean", "">>
      [] attr_type.n \in EnumClasses -> <<"enum", attr_type.n>>
      [] attr_type.n \in RecordClasses -> <<"$ref", attr_type.n>>

\* C23: for a class T the schema is the one of the resolver registered for
\* exactly T, whatever was registered after it; else of the most recently
\* registered resolver for a superclass of T; else the built-in one.
C23_SchemaDispatchOrder ==
    \A target \in SchemaTargets :
        LET regs == Registered("schema")
            exact == SelectSeq(regs, LAMBDA h : h.type = target.n)
            super == SelectSeq(regs, LAMBDA h : IsSubclass(target.n, h.type))
        IN get_schema_for_class(schema_resolvers, target) =
              IF exact # <<>> THEN <<"resolver", exact[Len(exact)].cb>>
              ELSE IF super # <<>> THEN <<"resolver", super[Len(super)].cb>>
              ELSE BuiltInSchema(target)

\* a resolver for int was registered, then one for object: int still goes
\* to its own, bool to the one for object, the most recent of its two
C23_Witness ==
    /\ Len(schema_resolvers) = 2
    /\ schema_resolvers[1].type = "object"
    /\ schema_resolvers[2].type = "int"
    /\ get_schema_for_class(schema_resolvers, Cls("int")) = <<"resolver", schema_resolvers[2].cb>>
    /\ get_schema_for_class(schema_resolvers, Cls("bool")) = <<"resolver", schema_resolvers[1].cb>>


(***************************************************************************)
(* Properties of the error settings.                                       *)
(***************************************************************************)
\* C24 as stated: a failing construction of any record class raises the
\* class passed by the most recent set_validation_custom_exception call,
\* TypeError when that call passed None or was never made.
C24_LastSettingWins ==
    (call.op = "construct" /\ ~result.ok)
        => result.exc.type = IF last_set = "None" THEN "TypeError" ELSE last_set

\* the part of it the code keeps: a setter writes one attribute of one
\* class and leaves the other settings and the registries as they are
C24_SettersIndependent ==
    [][/\ (custom_exception' # custom_exception
              \/ \E c \in Receivers : own'[c].custom_exception # own[c].custom_exception)
          => /\ UNCHANGED <<lazy_type_check, from_json_custom_exception, registryVars>>
             /\ \A c \in Receivers :
                   /\ own'[c].lazy_type_check = own[c].lazy_type_check
                   /\ own'[c].from_json_custom_exception = own[c].from_json_custom_exception
       /\ (lazy_type_check' # lazy_type_check
              \/ \E c \in Receivers : own'[c].lazy_type_check # own[c].lazy_type_check)
          => /\ UNCHANGED <<custom_exception, from_json_custom_exception, registryVars>>
             /\ \A c \in Receivers :
                   /\ own'[c].custom_exception = own[c].custom_exception
                   /\ own'[c].from_json_custom_exception = own[c].from_json_custom_exception
       /\ (from_json_custom_exception' # from_json_custom_exception
              \/ \E c \in Receivers :
                    own'[c].from_json_custom_exception # own[c].from_json_custom_exception)
          => /\ UNCHANGED <<custom_exception, lazy_type_check, registryVars>>
             /\ \A c \in Receivers :
                   /\ own'[c].custom_exception = own[c].custom_exception
                   /\ own'[c].lazy_type_check = own[c].lazy_type_check]_vars


(***************************************************************************)
(* Properties of decoding fields.                                          *)
(***************************************************************************)
\* the raw value of a kind that the declared kind of the field does not
\* take: None or a scalar for a list, tuple or dict field, a list for a
\* field declared as a scalar class or a record class
ShapeMismatch(field, raw) ==
    \/ /\ get_base_type(field.annotation) \in {"list", "tuple", "dict"}
       /\ raw[1] \in {"none", "int", "float", "str"}
    \/ /\ isclass(field.annotation)
       /\ field.annotation.n \in {"int", "str", "float", "bool"} \cup RecordClasses
       /\ raw[1] = "list"

\* the fields a document gives a value of the wrong shape, not their default
MismatchedFields(cls, doc) ==
    {i \in 1..Len(FieldMap(cls)) :
        /\ DictHas(doc[2], StrV(FieldMap(cls)[i].name))
        /\ ShapeMismatch(FieldMap(cls)[i], DictGet(doc[2], StrV(FieldMap(cls)[i].name)))
        /\ ~PyEq(DictGet(doc[2], StrV(FieldMap(cls)[i].name)), FieldMap(cls)[i].default)}

\* C25 as stated: from_dict on a document that gives a field a value of
\* the wrong shape raises the wrong-type error of construction, whose list
\* has the entry of that field.
C25_ShapeMismatchAlwaysReported ==
    (call.op = "from_dict" /\ MismatchedFields(call.cls, call.arg) # {})
        => /\ ~result.ok
           /\ result.exc.enriched
           /\ result.exc.msg = <<"type error", call.cls>>
           /\ \A i \in MismatchedFields(call.cls, call.arg) :
                 \E k \in 1..Len(result.exc.errors) :
                    result.exc.errors[k].field = FieldMap(call.cls)[i].name

\* C25 amended: from_dict on a document that lacks no required field,
\* whose present fields all decode, and that gives a field a value of the
\* wrong shape raises the wrong-type error of construction; unless
\* validation stopped at an earlier field, its list has the entry of that
\* field: its name, its declared type and the printable form of the raw
\* value, unchanged.
C25_ShapeMismatchReachesValidation ==
    (/\ call.op = "from_dict"
     /\ MissingRequired(call.cls, call.arg) = <<>>
     /\ PresentFieldsDecode(call.cls, call.arg)
     /\ MismatchedFields(call.cls, call.arg) # {})
        => /\ ~result.ok
           /\ result.exc.enriched
           /\ result.exc.type = IF custom_exception = "None" THEN "TypeError"
                                ELSE custom_exception
           /\ result.exc.msg = <<"type error", call.cls>>
           /\ \A i \in MismatchedFields(call.cls, call.arg) :
                 LET field == FieldMap(call.cls)[i]
                     entry == [field |-> field.name,
                               type |-> field.annotation,
                               value |-> Repr(DictGet(call.arg[2], StrV(field.name)))]
                 IN \/ \E k \in 1..Len(result.exc.errors) : result.exc.errors[k] = entry
                    \/ lazy_type_check /\ result.exc.errors[1].field # field.name

\* a document gives the list field of RL the scalar 1 and the error names it
C25_Witness ==
    /\ call.op = "from_dict"
    /\ call.cls = "RL"
    /\ DictGet(call.arg[2], StrV("l")) = IntV(1)
    /\ ~result.ok
    /\ ErrorFields(result) = <<"l">>
    /\ result.exc.errors[1].value = Repr(IntV(1))

\* a document gives the scalar field of B a list
C25_WitnessScalar ==
    /\ call.op = "from_dict"
    /\ call.cls = "B"
    /\ DictGet(call.arg[2], StrV("x"))[1] = "list"
    /\ ~result.ok


\* the document without the keys that are no declared field
DeclaredPart(cls, doc) ==
    DictV(SelectSeq(doc[2],
                    LAMBDA item : \E i \in 1..Len(DeclaredNames(cls)) :
                                     item[1] = StrV(DeclaredNames(cls)[i])))

\* C26: after from_dict, whether it returned or raised, the caller's
\* document holds the items it held before; the keyword map holds declared
\* fields only, and the outcome is the one of the document without its
\* undeclared keys; an instance built holds the values of the keyword map.
C26_DocumentUntouched ==
    call.op = "from_dict"
        => /\ call.maps.dict_repr = call.arg[2]
           /\ \A k \in 1..Len(call.maps.kwargs) :
                 \E i \in 1..Len(DeclaredNames(call.cls)) :
                    call.maps.kwargs[k][1] = StrV(DeclaredNames(call.cls)[i])
           /\ result = from_dict(call.cls, DeclaredPart(call.cls, call.arg)[2])
           /\ result.ok
                 => \A k \in 1..Len(call.maps.kwargs) :
                       \E i \in 1..Len(DeclaredNames(call.cls)) :
                          /\ call.maps.kwargs[k][1] = StrV(DeclaredNames(call.cls)[i])
                          /\ call.maps.kwargs[k][2] = result.val[2][2][i]

\* a document with an undeclared key and a list for the tuple field of RT
\* was decoded into an instance holding the tuple
C26_Witness ==
    /\ call.op = "from_dict"
    /\ call.cls = "RT"
    /\ DictHas(call.arg[2], ExtraKey)
    /\ DictGet(call.arg[2], StrV("t"))[1] = "list"
    /\ result.ok
    /\ result.val[2][2][1][1] = "tuple"

\* a document with an undeclared key was refused and is as it was
C26_WitnessRaised ==
    /\ call.op = "from_dict"
    /\ DictHas(call.arg[2], ExtraKey)
    /\ call.maps.kwargs # <<>>
    /\ ~result.ok


\* the object schema _generate_object_schema builds for a record class
ObjectSchema(klass) ==
    <<"object", [i \in 1..Len(graph[klass]) |->
                    <<"f" \o ToString(i), SchemaNode(graph[klass][i])>>]>>

\* the classes whose fields the document shows: the root and every class
\* that has the entry of its name in $defs
Shown ==
    {schema.klass}
    \cup {n \in SchemaNodes : \E i \in 1..Len(schema.defs) :
                                 schema.defs[i] = <<class_name(n), ObjectSchema(n)>>}

\* C27 as stated: every reference of the document generate returns, in the
\* root's properties or in a $defs entry, has a $defs entry under its
\* name, and the entry is the object schema of the record class the
\* reference stands for.
C27_EveryRefResolves ==
    schema.done
        => \A n \in Referred(Shown) :
              \E i \in 1..Len(schema.defs) :
                 schema.defs[i] = <<class_name(n), ObjectSchema(n)>>

\* the same with an entry of the name, whatever record class it describes,
\* for the references to classes other than the root
C27_NestedRefsHaveAnEntry ==
    schema.done
        => \A n \in Referred(Shown) \ {schema.klass} :
              \E i \in 1..Len(schema.defs) : schema.defs[i][1] = class_name(n)


\* the raw list a document gives for the fixed tuple field of RT
RawTuple == DictGet(call.arg[2], StrV("t"))

\* from_dict was called for RT with a list for the field t
TupleDecoded ==
    /\ call.op = "from_dict"
    /\ call.cls = "RT"
    /\ DictHas(call.arg[2], StrV("t"))
    /\ RawTuple[1] = "list"

\* C28 as stated: for the field t: tuple[int, str], from_dict given a list
\* whose length is not 2 raises the wrong-type error for t and builds no
\* instance; given a list of length 2 that it accepts, the tuple built has
\* length 2 and position k is raw element k cast against descriptor k.
C28_TupleLengthChecked ==
    TupleDecoded
        => /\ Len(RawTuple[2]) # Len(FieldMap("RT")[1].annotation.a)
                 => /\ ~result.ok
                    /\ \E e \in 1..Len(result.exc.errors) :
                          result.exc.errors[e].field = "t"
           /\ (Len(RawTuple[2]) = Len(FieldMap("RT")[1].annotation.a) /\ result.ok)
                 => /\ result.val[2][2][1][1] = "tuple"
                    /\ Len(result.val[2][2][1][2]) = Len(RawTuple[2])
                    /\ \A k \in 1..Len(RawTuple[2]) :
                          Return(result.val[2][2][1][2][k])
                              = type_caster(FieldMap("RT")[1].annotation.a[k],
                                            RawTuple[2][k])

\* a list shorter than the tuple is refused
C28_ShortTupleRefused ==
    (TupleDecoded /\ Len(RawTuple[2]) < Len(FieldMap("RT")[1].annotation.a))
        => ~result.ok


\* the record classes with one list field of elements that are no records
ListClasses == {"RL", "RLU", "RLF"}

\* the raw list a document gives for the list field l
RawList == DictGet(call.arg[2], StrV("l"))

\* from_dict was called for a list class with a list for the field l
ListDecoded ==
    /\ call.op = "from_dict"
    /\ call.cls \in ListClasses
    /\ DictHas(call.arg[2], StrV("l"))
    /\ RawList[1] = "list"

\* the declared alternatives of an element annotation
Alternatives(attr_type) == IF is_union(attr_type) THEN attr_type.a ELSE <<attr_type>>

\* an element converted by the first declared alternative that has a
\* resolver, unchanged when none has
RECURSIVE by_first_alternative(_, _, _)
by_first_alternative(alternatives, item, i) ==
    IF i > Len(alternatives) THEN Return(item)
    ELSE IF matching_entry(types_resolver, alternatives[i]) # 0
         THEN ApplyDecoder(CallbackAt(types_resolver,
                                      matching_entry(types_resolver, alternatives[i])),
                           alternatives[i], item)
    ELSE by_first_alternative(alternatives, item, i + 1)

\* the list field of the instance from_dict returned
DecodedList == result.val[2][2][1]

RECURSIVE RegistryAt(_, _)
RegistryAt(kind, k) ==
    IF k = 0
    THEN IF kind = "decoder" THEN DefaultTypesResolver ELSE <<>>
    ELSE IF history[k].kind = kind
         THEN InsertFront(RegistryAt(kind, k - 1),
                          [type |-> history[k].type, cb |-> history[k].cb])
    ELSE RegistryAt(kind, k - 1)

\* the callback a lookup that ran alone on a registry would return
Selected(kind, resolvers, type) ==
    IF kind = "decoder"
    THEN IF matching_entry(resolvers, Cls(type)) = 0 THEN "unchanged"
         ELSE CallbackAt(resolvers, matching_entry(resolvers, Cls(type)))
    ELSE IF schema_entry(resolvers, Cls(type)) = 0 THEN "builtin"
         ELSE CallbackAt(resolvers, schema_entry(resolvers, Cls(type)))

\* the lookups of the decoder and the schema registry that returned
Finished ==
    {t \in Threads : /\ job[t].op = "lookup"
                     /\ job[t].kind \in {"decoder", "schema"}
                     /\ pc[t] = "done"}

\* the place an entry is first seen at by a lookup, 0 when it is not seen
FirstSeen(t, entry) ==
    LET places == {p \in 1..Len(job[t].seen) : job[t].seen[p] = entry}
    IN IF places = {} THEN 0 ELSE CHOOSE p \in places : \A q \in places : p <= q

\* the entries the registry held when the lookup of thread t began are
\* examined in their order, none passed over: an entry seen has all those
\* before it seen before it, and a lookup that matched nothing saw all
NoneSkipped(t) ==
    LET original == RegistryAt(job[t].kind, job[t].began)
    IN /\ \A a, b \in 1..Len(original) :
             (a < b /\ FirstSeen(t, original[b]) # 0)
                 => /\ FirstSeen(t, original[a]) # 0
                    /\ FirstSeen(t, original[a]) < FirstSeen(t, original[b])
       /\ outcome[t] \in {"unchanged", "builtin"}
             => \A a \in 1..Len(original) : FirstSeen(t, original[a]) # 0

\* the lookup of thread t returned what the registry selects in one of the
\* states it had from the start of the lookup to its end
SomeStateSelects(t) ==
    \E k \in job[t].began..job[t].ended :
        outcome[t] = Selected(job[t].kind, RegistryAt(job[t].kind, k), job[t].type)

\* C30 as stated: a decoder or schema lookup running while entries are
\* inserted at the front examines every entry the registry held when it
\* began, in the original order, and returns the resolver some registry
\* state between its start and its end selects; no entry is ever removed.
C30_LookupSeesARegistryState ==
    /\ \A t \in Finished : NoneSkipped(t) /\ SomeStateSelects(t)
    /\ types_resolver = RegistryAt("decoder", Len(history))
    /\ schema_resolvers = RegistryAt("schema", Len(history))

\* the same for the lookups of the decoder registry and the order of
\* examination of the schema lookups
C30_DecoderLookupSeesAState ==
    /\ \A t \in Finished :
          /\ NoneSkipped(t)
          /\ job[t].kind = "decoder" => SomeStateSelects(t)
    /\ types_resolver = RegistryAt("decoder", Len(history))
    /\ schema_resolvers = RegistryAt("schema", Len(history))

\* a decoder lookup returned after a registration made while it ran
C30_WitnessDecoder ==
    \E t \in Finished :
        /\ job[t].kind = "decoder"
        /\ job[t].ended > job[t].began
        /\ Len(job[t].seen) > 1

====
